---- MODULE Spec2Model ----
(***************************************************************************)
(* State-machine model of the agent runtime of blueberry-browser:          *)
(*   AgentRuntime      (task store, FIFO queue, bounded scheduler)         *)
(*   AgentOrchestrator (plan / validate / act loop of one task)            *)
(*   AgentMemory       (per-task log)                                      *)
(*   ToolRegistry      (action validator)                                  *)
(*                                                                         *)
(* JavaScript runs one handler at a time.  A handler is synchronous code   *)
(* up to the next await; EventEmitter.emit calls the listeners             *)
(* synchronously, so a listener can observe the state at the emit and can  *)
(* call back into the runtime (createTask, updateTaskContext) before the   *)
(* emitting code goes on.  The model therefore keeps the call stack of the *)
(* running handler: every action either starts a handler from the event    *)
(* loop (stack empty) or moves the top frame from one emit to the next.    *)
(*                                                                         *)
(* Strings are sequences of string atoms; concatenation is \o.  An         *)
(* optional value is <<>> (undefined) or <<v>>.                            *)
(***************************************************************************)
EXTENDS Integers, Sequences, FiniteSets, TLC

\* ---------------------------------------------------------------- bounds
MaxCalls == 3          \* client calls (createTask, updateTaskContext, registerExecutor) in one behaviour
MaxSteps == 2          \* largest configured maxSteps
MaxParallel == 2       \* largest configured maxParallelTasks
MaxReplies == 2        \* planner replies and listener errors in one behaviour
MaxSubscribers == 2    \* sockets and webContents that subscribe in one behaviour
MaxEntries == 3        \* entries remembered for one task when the memory is checked by itself

TaskIds == 1..MaxCalls

VARIABLES
    config,          \* RuntimeConfig: maxSteps, maxParallelTasks
    host,            \* the executor the embedding host registers
    modelReady,      \* AgentModelClient.isReady
    executor,        \* AgentRuntime.executor
    rejected,        \* createTask calls that threw so far
    tasks,           \* AgentRuntime.tasks: id -> AgentTask
    queue,           \* AgentRuntime.queue (task ids, head first)
    activeTaskIds,   \* AgentRuntime.activeTaskIds
    memory,          \* AgentMemory.entriesByTask
    pc,              \* position of each task's createTask/run coroutine
    local,           \* locals of run(task): iteration, plan, execution
    stack,           \* call stack of the running handler, top first
    events,          \* events emitted for each task, in emission order
    updated,         \* task-updated events emitted for each task
    caller,          \* state of the promise createTask returned
    calls,           \* planner / executor invocations per task
    apiCalls,        \* calls of the runtime made by clients so far
    replies,         \* planner replies and listener errors delivered so far
    hub,             \* AgentServer / AgentBridge: subscribers and what was sent
    probe            \* the last call of a query and its result

vars == <<config, hub, probe, host, modelReady, executor, rejected, tasks, queue, activeTaskIds, memory, pc, local, stack,
          events, updated, caller, calls, apiCalls, replies>>

\* ------------------------------------------------------- generic helpers
None == <<>>
Some(x) == <<x>>
IsSome(o) == Len(o) = 1
Get(o) == o[1]

\* s contains sub as a contiguous substring
Contains(s, sub) ==
    \E i \in 0..(Len(s) - Len(sub)) : SubSeq(s, i + 1, i + Len(sub)) = sub

RECURSIVE Join(_, _)
Join(parts, sep) ==
    IF parts = <<>> THEN <<>>
    ELSE IF Len(parts) = 1 THEN parts[1]
    ELSE parts[1] \o sep \o Join(Tail(parts), sep)

toUpperCase(result) ==
    IF result = "success" THEN "SUCCESS"
    ELSE IF result = "error" THEN "ERROR"
    ELSE result

\* ----------------------------------------------------------- ToolRegistry
Schema(keys, req) ==
    [i \in 1..Len(keys) |-> [key |-> keys[i], required |-> keys[i] \in req]]

TOOL_DEFINITIONS ==
    [navigate |-> Schema(<<"url", "tabId", "waitFor">>, {"url"}),
     click    |-> Schema(<<"selector", "tabId", "button", "waitForNavigation">>,
                         {"selector"}),
     type     |-> Schema(<<"selector", "text", "tabId", "submit", "clear">>,
                         {"selector", "text"}),
     wait     |-> Schema(<<"ms", "tabId", "until", "timeoutMs">>, {}),
     scroll   |-> Schema(<<"direction", "tabId", "amount", "selector">>,
                         {"direction"}),
     extract  |-> Schema(<<"selector", "tabId", "attribute", "purpose">>,
                         {"attribute"}),
     finish   |-> Schema(<<"status", "summary">>, {"status", "summary"})]

\* TOOL_DEFINITIONS is a plain object: a lookup of a name it does not own
\* falls through to Object.prototype and yields a value without a schema.
ObjectPrototypeKeys == {"toString", "constructor"}

\* getTool: <<schema>> for a registered tool, <<>> for undefined; the third
\* outcome (an inherited member) is told apart by InheritedMember.
getTool(type) ==
    IF type \in DOMAIN TOOL_DEFINITIONS THEN Some(TOOL_DEFINITIONS[type])
    ELSE None

InheritedMember(type) == type \in ObjectPrototypeKeys

\* value === undefined || value === null
Missing(params, key) == key \notin DOMAIN params \/ params[key] = None

MissingIssue(key, type) ==
    <<"Missing required parameter \"", key, "\" for ", type, ".">>

UnknownToolIssue(type) == <<"Unknown tool \"", type, "\".">>

ValidationResult(ok, issues, thrown) ==
    [ok |-> ok, issues |-> issues, thrown |-> thrown]

\* validateAction: ok, or the issues in schema order, or a TypeError when
\* the tool has no schema or the action has no params object.
validateAction(action) ==
    IF InheritedMember(action.type)
    THEN ValidationResult(FALSE, <<>>,
             Some(<<"Cannot convert undefined or null to object">>))
    ELSE IF getTool(action.type) = None
    THEN ValidationResult(FALSE, <<UnknownToolIssue(action.type)>>, None)
    ELSE IF action.params = None
    THEN ValidationResult(FALSE, <<>>,
             Some(<<"Cannot read properties of undefined">>))
    ELSE LET schema == Get(getTool(action.type))
             absent == SelectSeq(schema,
                          LAMBDA r : r.required /\ Missing(Get(action.params), r.key))
             issues == [i \in 1..Len(absent) |->
                          MissingIssue(absent[i].key, action.type)]
         IN  ValidationResult(issues = <<>>, issues, None)

\* ------------------------------------------------------------ AgentMemory
Entry(type, content, metadata) ==
    [type |-> type, content |-> content, metadata |-> metadata]

rememberShared(mem, taskId, entry) ==
    [u \in DOMAIN mem |-> Append(mem[u], entry)]

remember(mem, taskId, entry) ==
    [mem EXCEPT ![taskId] = Append(@, entry)]

getRecentOldest(mem, taskId, limit) ==
    LET list == mem[taskId]
    IN  IF limit <= 0 \/ Len(list) <= limit THEN list
        ELSE SubSeq(list, 1, limit)

\* getRecent: a copy of the list, or of its last `limit` entries
getRecent(mem, taskId, limit) ==
    LET list == mem[taskId]
    IN  IF limit <= 0 \/ Len(list) <= limit THEN list
        ELSE SubSeq(list, Len(list) - limit + 1, Len(list))

\* Object.entries(data).map(k: JSON.stringify(v)).join("\n"); the keys are
\* taken in a fixed order (the model's data objects have at most one key).
RECURSIVE serialise(_, _)
serialise(data, keys) ==
    IF keys = {} THEN <<>>
    ELSE LET k == CHOOSE x \in keys : TRUE
             rest == serialise(data, keys \ {k})
         IN  <<k, ": ", "\"">> \o data[k] \o <<"\"">>
               \o (IF rest = <<>> THEN <<>> ELSE <<"\n">> \o rest)

summaryTextNoMessage(goal, observation) ==
    Join(<< <<"Goal: ">> \o goal,
            <<"Result: ", toUpperCase(observation.result)>> >>, <<"\n">>)

\* the string summarise(task, observation) returns
summaryText(goal, observation) ==
    LET base == << <<"Goal: ">> \o goal,
                   <<"Result: ", toUpperCase(observation.result)>>,
                   observation.message >>
        ser == IF IsSome(observation.data)
               THEN serialise(Get(observation.data), DOMAIN Get(observation.data))
               ELSE <<>>
        parts == IF ser # <<>>
                 THEN Append(base, <<"\nAdditional Data:\n">> \o ser)
                 ELSE base
    IN  Join(parts, <<"\n">>)

\* the memory after summarise(task, observation)
summariseMemory(mem, taskId, goal, observation) ==
    remember(mem, taskId, Entry("summary", summaryText(goal, observation), None))

\* ------------------------------------------------------------------ types
Action(type, params) == [type |-> type, params |-> params]

Finish(status, summary) == [status |-> status, summary |-> summary]

\* AgentPlanOutput
Plan(thought, action, finish, caution) ==
    [thought |-> thought, action |-> action, finish |-> finish,
     caution |-> caution]

\* AgentObservation
Observation(result, message, data) ==
    [result |-> result, message |-> message, data |-> data]

\* ActionExecutionResult (didTerminate undefined is FALSE)
Execution(observation, didTerminate, summary) ==
    [observation |-> observation, didTerminate |-> didTerminate,
     summary |-> summary]

\* a settled promise of the planner or the executor: a value or an Error
Resolved(v) == [thrown |-> None, value |-> Some(v)]
Rejected(message) == [thrown |-> Some(message), value |-> None]

\* ----------------------------------------------------------------- inputs
\* the goals clients pass to createTask: a task, the empty string and a
\* string of white space
Goals == { <<"open example.com">>, <<>>, <<" ", "\t">> }

Contexts == { None }

ContextPatches == { [url |-> <<"https://b">>] }

ScrollDown == Action("scroll", Some([direction |-> <<"down">>]))
ClickNothing == Action("click", Some(<<>>))
TypeNull == Action("type", Some([selector |-> None]))
NoParams == Action("scroll", None)

UnparsableMessage ==
    <<"Agent model returned an unparsable response. Expected JSON payload.">>

\* what modelClient.plan can settle with
PlannerReplies ==
    { Resolved(Plan(<<"scroll">>, Some(ScrollDown), None, None)),
      Resolved(Plan(<<"type">>, Some(TypeNull), None, None)),
      Resolved(Plan(<<"bare">>, Some(NoParams), None, None)),
      Resolved(Plan(<<"done">>, None,
                    Some(Finish("success", <<"Opened example.com">>)), None)),
      Resolved(Plan(<<"stuck">>, None,
                    Some(Finish("failed", <<"Could not click.">>)), None)),
      Resolved(Plan(<<"both">>, Some(ClickNothing),
                    Some(Finish("success", <<"Finished anyway">>)), None)),
      Resolved(Plan(<<"both, failed">>, Some(ScrollDown),
                    Some(Finish("failed", <<"Gave up.">>)), None)),
      Resolved(Plan(<<"idle">>, None, None, Some(<<"be careful">>))),
      Rejected(UnparsableMessage) }

\* what the executor can settle with
ExecutorReplies ==
    { Resolved(Execution(Observation("success", <<"Scrolled.">>,
                             Some([offset |-> <<"600">>])), FALSE, None)),
      Resolved(Execution(Observation("error", <<"Selector not found.">>, None),
                         FALSE, None)),
      Resolved(Execution(Observation("success", <<"Task marked as finished.">>,
                             None), TRUE, None)),
      Resolved(Execution(Observation("error", <<"No tab.">>, None), TRUE,
                         Some(<<"Stopped.">>))),
      Rejected(<<"executor crashed">>) }

defaultExecutorGoesOn ==
    Execution(Observation("error",
                  <<"Agent executor not connected. Please register an executor bridge.">>,
                  None),
              FALSE, None)

\* DEFAULT_EXECUTOR: the result of every call
DEFAULT_EXECUTOR ==
    Execution(Observation("error",
                  <<"Agent executor not connected. Please register an executor bridge.">>,
                  None),
              TRUE, Some(<<"Stopped because no executor bridge is available.">>))

\* agentSafetyConfig.blockedOrigins: URL prefixes navigate must not open
BlockedOrigins == { <<"file", ":">> }

\* url.startsWith(prefix)
startsWith(url, prefix) ==
    Len(url) >= Len(prefix) /\ SubSeq(url, 1, Len(prefix)) = prefix

\* url.split(":")[0]
RECURSIVE beforeColon(_)
beforeColon(url) ==
    IF url = <<>> \/ Head(url) = ":" THEN <<>>
    ELSE <<Head(url)>> \o beforeColon(Tail(url))

blocked(url) == \E prefix \in BlockedOrigins : startsWith(url, prefix)

BlockedMessage(url) ==
    <<"Navigation to URLs starting with \"">> \o beforeColon(url)
        \o <<":\" is blocked by safety policy.">>

NoTabMessage == <<"No active tab available for navigation.">>

\* handleNavigate: what a call can settle with; the window has an active
\* tab or it has none
handleNavigate(params) ==
    LET url == IF "url" \in DOMAIN params THEN Some(params.url) ELSE None
    IN  { Resolved(Execution(Observation("error", NoTabMessage, None),
                             FALSE, None)) }
        \cup
        (IF url = None \/ url = Some(None)
         THEN { Rejected(<<"navigate action requires a URL string.">>) }
         ELSE IF blocked(Get(url))
         THEN { Rejected(BlockedMessage(Get(url))) }
         ELSE { Resolved(Execution(
                    Observation("success",
                                <<"Navigated to ">> \o Get(url) \o <<".">>,
                                Some([url |-> Get(url)])),
                    FALSE, None)) })

\* the handlers of click, type, wait, scroll and extract return an
\* observation of success or error, or throw; none sets didTerminate
handleOther ==
    { Resolved(Execution(Observation("success", <<"Scrolled.">>,
                             Some([offset |-> <<"600">>])), FALSE, None)),
      Resolved(Execution(Observation("error", <<"Selector not found.">>, None),
                         FALSE, None)),
      Rejected(<<"scroll action requires a direction.">>) }

\* the catch of createAgentExecutor: a thrown error becomes an observation
caught(outcome) ==
    IF IsSome(outcome.thrown)
    THEN Resolved(Execution(Observation("error", Get(outcome.thrown), None),
                            FALSE, None))
    ELSE outcome

\* the executor createAgentExecutor returns: what a call can settle with
createAgentExecutor(action) ==
    IF action.type = "navigate"
    THEN { caught(o) : o \in handleNavigate(Get(action.params)) }
    ELSE IF action.type = "finish"
    THEN { Resolved(Execution(Observation("success",
                                  <<"Task marked as finished.">>, None),
                              TRUE, None)) }
    ELSE IF action.type \notin DOMAIN TOOL_DEFINITIONS
    THEN { Resolved(Execution(Observation("error",
                                  <<"Unsupported action type ", action.type, ".">>,
                                  None),
                              TRUE, None)) }
    ELSE { caught(o) : o \in handleOther }

\* what a call of the executor `kind` with the action can settle with
executorReplies(kind, action) ==
    IF kind = "default" THEN { Resolved(DEFAULT_EXECUTOR) }
    ELSE IF kind = "browser" THEN createAgentExecutor(action)
    ELSE ExecutorReplies

NavigateBlocked ==
    Action("navigate", Some([url |-> <<"file", ":", "///etc/passwd">>]))

NavigateAllowed ==
    Action("navigate", Some([url |-> <<"https", ":", "//example.com">>]))

\* the plans of the behaviours in which the host registers the executor of
\* createAgentExecutor, whose result depends on the action
BrowserPlannerReplies ==
    { Resolved(Plan(<<"local file">>, Some(NavigateBlocked), None, None)),
      Resolved(Plan(<<"open">>, Some(NavigateAllowed), None, None)),
      Resolved(Plan(<<"scroll">>, Some(ScrollDown), None, None)),
      Resolved(Plan(<<"click">>, Some(ClickNothing), None, None)),
      Resolved(Plan(<<"done">>, None,
                    Some(Finish("success", <<"Opened example.com">>)), None)),
      Rejected(UnparsableMessage) }

plannerReplies(h) ==
    IF h = "browser" THEN BrowserPlannerReplies ELSE PlannerReplies

\* the runtime configurations: one task at a time with the full step
\* budget, and tasks in parallel with a budget of one step
Configs ==
    { [maxSteps |-> MaxSteps, maxParallelTasks |-> 1],
      [maxSteps |-> 1, maxParallelTasks |-> MaxParallel] }

Subscribers == 1..MaxSubscribers

\* no socket is connected and no webContents subscribed
NoSubscribers ==
    [clients |-> <<>>, subscribers |-> <<>>,
     state |-> [s \in Subscribers |-> "none"],
     inbox |-> [s \in Subscribers |-> <<>>]]

\* no query was made
NoProbe == [call |-> "none"]

\* ------------------------------------------------------------------- Init
NoLocal == [iteration |-> 0, plan |-> None, by |-> "none", execution |-> None]

InitWith(h) ==
    /\ config \in Configs
    /\ host = h
    /\ modelReady \in BOOLEAN
    /\ executor = "default"
    /\ rejected = 0
    /\ tasks = <<>>
    /\ queue = <<>>
    /\ activeTaskIds = {}
    /\ memory = [t \in TaskIds |-> <<>>]
    /\ pc = [t \in TaskIds |-> "none"]
    /\ local = [t \in TaskIds |-> NoLocal]
    /\ stack = <<>>
    /\ events = [t \in TaskIds |-> <<>>]
    /\ updated = [t \in TaskIds |-> 0]
    /\ caller = [t \in TaskIds |-> "none"]
    /\ calls = [t \in TaskIds |-> [planner |-> 0, executor |-> 0]]
    /\ apiCalls = 0
    /\ replies = 0
    /\ hub = NoSubscribers
    /\ probe = NoProbe

\* the runtime under a host that registers an executor of its own
Init == InitWith("custom")

\* the runtime under the browser, which registers createAgentExecutor(window)
InitBrowser == InitWith("browser")

\* ----------------------------------------------------------------- events
Event(type, payload) == [type |-> type, payload |-> payload]

emitInFront(ev, taskId, type, payload) ==
    [ev EXCEPT ![taskId] = <<Event(type, payload)>> \o @]

emit(ev, taskId, type, payload) ==
    [ev EXCEPT ![taskId] = Append(@, Event(type, payload))]

\* -------------------------------------------- AgentServer and AgentBridge
\* The server sends to the clients of its WebSocketServer, the bridge to the
\* webContents in its set `subscribers`; both sets iterate in insertion
\* order.  `state` is the readyState of a socket (open, closing, closed) or
\* the condition of a webContents: live, broken (send throws, its render
\* frame being disposed) or destroyed.  `inbox` is what was sent to each.
\* the events bindRuntimeEvents binds a broadcast to
ServerEvents ==
    {"task-created", "task-started", "step-created", "step-updated",
     "task-completed", "task-failed", "planning-started",
     "planning-finished", "task-error"}

\* the events forwardRuntimeEvents binds a dispatch to
BridgeEvents ==
    {"task-created", "task-started", "step-created", "step-updated",
     "task-completed", "task-failed", "task-error", "planning-started",
     "planning-finished"}

\* { type, payload }
Message(type, payload) == [type |-> type, payload |-> payload]

Range(seq) == { seq[i] : i \in DOMAIN seq }

Without(seq, x) == SelectSeq(seq, LAMBDA y : y # x)

\* broadcast: every client whose readyState is OPEN is sent the message
broadcast(h, message) ==
    [h EXCEPT !.inbox =
        [s \in Subscribers |->
            IF s \in Range(h.clients) /\ h.state[s] = "open"
            THEN Append(h.inbox[s], message)
            ELSE h.inbox[s]]]

\* dispatch: the loop over `subscribers` sends to each webContents that is
\* not destroyed; a send that throws ends the loop
dispatch(h, message) ==
    [h EXCEPT !.inbox =
        [s \in Subscribers |->
            IF \E i \in DOMAIN h.subscribers :
                  /\ h.subscribers[i] = s
                  /\ h.state[s] # "destroyed"
                  /\ \A j \in 1..i : h.state[h.subscribers[j]] # "broken"
            THEN Append(h.inbox[s], message)
            ELSE h.inbox[s]]]

\* a send of dispatch throws
sendThrows(h) == \E i \in DOMAIN h.subscribers : h.state[h.subscribers[i]] = "broken"

\* the listeners the server and the bridge registered for `type`, in the
\* order of registration: the server's (AgentServer constructor) and then
\* the bridge's (AgentBridge constructor, after the server exists)
forward(h, taskId, type, payload) ==
    LET message == Message(type, [taskId |-> taskId, data |-> payload])
        sent == IF type \in ServerEvents THEN broadcast(h, message) ELSE h
    IN  IF type \in BridgeEvents THEN dispatch(sent, message) ELSE sent

\* the event whose emit a coroutine at position p is in
EventAt(p) == IF p = "creating" THEN "task-created" ELSE p

\* the emit a coroutine at position p is in throws: a listener of the
\* bridge was called and one of its sends threw
emitThrows(p) == EventAt(p) \in BridgeEvents /\ sendThrows(hub)

Frame(taskId, inDrain) == [task |-> taskId, inDrain |-> inDrain]

Idle == stack = <<>>

\* The running code is createTask at its emit of task-created, or
\* drainQueue at the emit of task-started that run makes as soon as it is
\* entered: the scheduler is in mid-operation while the listeners run.
\* Calls that listeners make back into createTask are modelled at these two
\* emits.  At the next emit inside drainQueue (planning-started) the
\* scheduler is in the state it had at task-started, and at every later
\* emit it is at rest, so a call there acts on the scheduler as it does at
\* task-started or from the event loop.
InScheduler ==
    /\ stack # <<>>
    /\ pc[Head(stack).task] \in {"creating", "task-started"}
    /\ Head(stack).inDrain \/ pc[Head(stack).task] = "creating"

\* the top frame is at the emit of event `type` for task t, and the
\* listeners of the server and of the bridge returned
AtEmit(t, type) ==
    stack # <<>> /\ Head(stack).task = t /\ pc[t] = type /\ ~emitThrows(type)

\* -------------------------------------------------------------- scheduler
hasCapacityLoose(active) == Cardinality(active) <= config.maxParallelTasks

hasCapacitySpare(active) == Cardinality(active) + 1 < config.maxParallelTasks

\* activeTaskIds.size < limit
hasCapacity(active) == Cardinality(active) < config.maxParallelTasks

shiftLast(q) == [item |-> q[Len(q)], rest |-> SubSeq(q, 1, Len(q) - 1)]

shiftPeek(q) == [item |-> Head(q), rest |-> q]

\* queue.shift()
shift(q) == [item |-> Head(q), rest |-> Tail(q)]

\* drainQueue from its loop test on, with the queue q, the active set
\* `active`, the coroutine positions p, the locals l of the coroutines and
\* the frames `below` the drain.
\* Either the loop takes the head, adds it to activeTaskIds and enters
\* run(task) up to the emit of task-started (run is entered synchronously
\* by runTask), or the loop ends and drainQueue returns.
drainQueue(q, active, p, l, below) ==
    IF hasCapacity(active) /\ q # <<>>
    THEN LET t == shift(q).item
         IN  /\ queue' = shift(q).rest
             /\ activeTaskIds' = active \cup {t}
             /\ tasks' = [tasks EXCEPT ![t].status = "running"]
             /\ events' = emit(events, t, "task-started", None)
             /\ hub' = forward(hub, t, "task-started", None)
             /\ pc' = [p EXCEPT ![t] = "task-started"]
             /\ local' = [l EXCEPT ![t] = NoLocal]
             /\ stack' = <<Frame(t, TRUE)>> \o below
    ELSE /\ queue' = q
         /\ activeTaskIds' = active
         /\ pc' = p
         /\ stack' = below
         /\ local' = l
         /\ UNCHANGED <<tasks, events, hub>>

\* the running code of the top frame reached an await or returned: control
\* goes back to the drainQueue loop that entered run, or the handler ends
leave(p, l) ==
    IF Head(stack).inDrain
    THEN drainQueue(queue, activeTaskIds, p, l, Tail(stack))
    ELSE /\ pc' = p
         /\ local' = l
         /\ stack' = Tail(stack)
         /\ UNCHANGED <<queue, activeTaskIds, tasks, events, hub>>

\* ------------------------------------------------------------- createTask
WhiteSpace == { " ", "\t", "\n" }

\* String.prototype.trim
RECURSIVE trimStart(_)
trimStart(s) ==
    IF s # <<>> /\ Head(s) \in WhiteSpace THEN trimStart(Tail(s)) ELSE s

RECURSIVE trimEnd(_)
trimEnd(s) ==
    IF s # <<>> /\ s[Len(s)] \in WhiteSpace
    THEN trimEnd(SubSeq(s, 1, Len(s) - 1))
    ELSE s

trim(s) == trimEnd(trimStart(s))

goalMissingUntrimmed(goal) == goal = <<>>

\* !goal || goal.trim().length === 0
goalMissing(goal) == goal = <<>> \/ Len(trim(goal)) = 0

\* the two checks of createTask: the errors it throws before it builds
\* the task
createTaskThrows(goal) ==
    IF goalMissing(goal)
    THEN Some(<<"Goal is required to create a task.">>)
    ELSE IF ~modelReady
    THEN Some(<<"Agent model is not initialised. Configure the AGENT_MODEL/API key first.">>)
    ELSE None

NewTask(id, goal, context) ==
    [id |-> id, goal |-> goal, status |-> "pending", createdAt |-> id,
     updatedAt |-> 0, steps |-> <<>>, summary |-> None,
     context |-> context, lastError |-> None]

NextId == Len(tasks) + 1

\* createTask: it throws on a missing goal or a model client that is not
\* ready (the promise it returns is rejected), else it runs up to
\* emit("task-created"): the task is in the store, not yet in the queue.
createTask(goal, context) ==
    /\ apiCalls < MaxCalls
    /\ apiCalls' = apiCalls + 1
    /\ IF IsSome(createTaskThrows(goal))
       THEN /\ rejected' = rejected + 1
            /\ UNCHANGED <<tasks, events, hub, pc, caller, stack>>
       ELSE /\ tasks' = Append(tasks, NewTask(NextId, goal, context))
            /\ events' = emit(events, NextId, "task-created",
                             NewTask(NextId, goal, context))
            /\ hub' = forward(hub, NextId, "task-created",
                              NewTask(NextId, goal, context))
            /\ pc' = [pc EXCEPT ![NextId] = "creating"]
            /\ caller' = [caller EXCEPT ![NextId] = "pending"]
            /\ stack' = <<Frame(NextId, FALSE)>> \o stack
            /\ UNCHANGED rejected
    /\ UNCHANGED <<config, probe, host, modelReady, executor, updated, queue, activeTaskIds, memory, local,
                   calls, replies>>

\* a client calls createTask from the event loop
CreateTask ==
    /\ Idle
    /\ \E goal \in Goals, context \in Contexts : createTask(goal, context)

\* a listener calls createTask while an emit of the scheduler is in progress
ListenerCreateTask ==
    /\ InScheduler
    /\ \E goal \in Goals, context \in Contexts : createTask(goal, context)

EnqueueAndReturn ==
    \E t \in TaskIds :
        /\ AtEmit(t, "creating")
        /\ drainQueue(Append(queue, t), activeTaskIds,
                      [pc EXCEPT ![t] = "queued"], local, Tail(stack))
        /\ caller' = [caller EXCEPT ![t] = "resolved"]
        /\ UNCHANGED <<config, probe, host, modelReady, executor, rejected, updated, memory, calls, apiCalls, replies>>

\* createTask after emit("task-created"): enqueue pushes the task and
\* drains the queue
Enqueue ==
    \E t \in TaskIds :
        /\ AtEmit(t, "creating")
        /\ drainQueue(Append(queue, t), activeTaskIds,
                      [pc EXCEPT ![t] = "queued"], local, Tail(stack))
        /\ UNCHANGED <<config, probe, host, modelReady, executor, rejected, updated, memory, caller, calls, apiCalls, replies>>

\* ----------------------------------------------------------- orchestrator
MaxStepMessage == <<"Max step count reached without completion.">>

NoActionMessage ==
    <<"Agent returned neither an action nor a finish directive.">>

InvalidActionMessage(issues) ==
    <<"Invalid action returned: ">> \o Join(issues, <<", ">>)

loopContinuesOnceMore(iteration) == iteration <= config.maxSteps

\* the test of the for loop of run
loopContinues(iteration) == iteration < config.maxSteps

finishTaskKeepStatus(task, summary) ==
    [task EXCEPT !.summary = Some(summary), !.updatedAt = @ + 1]

\* finishTask: the task fields it writes
finishTask(task, summary) ==
    [task EXCEPT !.status = "succeeded", !.summary = Some(summary),
                 !.updatedAt = @ + 1]

failTaskNoError(task, summary) ==
    [task EXCEPT !.status = "failed", !.summary = Some(summary),
                 !.updatedAt = @ + 1]

\* the else branch of completeFromFinish: the task fields it writes
failTask(task, summary) ==
    [task EXCEPT !.status = "failed", !.lastError = Some(summary),
                 !.summary = Some(summary), !.updatedAt = @ + 1]

\* completeFromFinish up to its emit, with the memory mem
completeFromFinish(t, summary, finish, mem) ==
    /\ memory' = mem
    /\ IF finish.status = "success"
       THEN /\ tasks' = [tasks EXCEPT ![t] = finishTask(@, summary)]
            /\ events' = emit(events, t, "task-completed", summary)
            /\ hub' = forward(hub, t, "task-completed", summary)
            /\ pc' = [pc EXCEPT ![t] = "task-completed"]
       ELSE /\ tasks' = [tasks EXCEPT ![t] = failTask(@, summary)]
            /\ events' = emit(events, t, "task-failed", summary)
            /\ hub' = forward(hub, t, "task-failed", summary)
            /\ pc' = [pc EXCEPT ![t] = "task-failed"]

catchUnrecorded(t, message, mem) ==
    /\ tasks' = [tasks EXCEPT ![t].lastError = Some(message)]
    /\ memory' = mem
    /\ events' = emit(events, t, "task-error", message)
    /\ hub' = forward(hub, t, "task-error", message)
    /\ pc' = [pc EXCEPT ![t] = "task-error"]

\* the catch block of run up to emit("task-error"), with the memory mem
catch(t, message, mem) ==
    /\ tasks' = [tasks EXCEPT ![t].lastError = Some(message)]
    /\ memory' = remember(mem, t,
                     Entry("observation", <<"Error: ">> \o message, None))
    /\ events' = emit(events, t, "task-error", message)
    /\ hub' = forward(hub, t, "task-error", message)
    /\ pc' = [pc EXCEPT ![t] = "task-error"]

\* the head of the for loop with the given iteration: planStep up to
\* emit("planning-started"), or the code after the loop (budget exhausted)
\* up to emit("task-failed")
enterLoop(t, iteration) ==
    /\ local' = [local EXCEPT ![t].iteration = iteration]
    /\ IF loopContinues(iteration)
       THEN /\ events' = emit(events, t, "planning-started",
                              Len(getRecent(memory, t, 16)))
            /\ hub' = forward(hub, t, "planning-started",
                   Len(getRecent(memory, t, 16)))
            /\ pc' = [pc EXCEPT ![t] = "planning-started"]
            /\ UNCHANGED <<tasks, memory>>
       ELSE LET observation == Observation("error", MaxStepMessage, None)
                summary == summaryText(tasks[t].goal, observation)
            IN  completeFromFinish(t, summary, Finish("failed", summary),
                    summariseMemory(memory, t, tasks[t].goal, observation))

\* run after emit("task-started")
AfterTaskStarted ==
    \E t \in TaskIds :
        /\ AtEmit(t, "task-started")
        /\ enterLoop(t, 0)
        /\ UNCHANGED <<config, probe, host, modelReady, executor, rejected, updated, queue, activeTaskIds, stack, caller, calls, apiCalls, replies>>

\* planStep after emit("planning-started"): modelClient.plan is called and
\* run suspends on it
AfterPlanningStarted ==
    \E t \in TaskIds :
        /\ AtEmit(t, "planning-started")
        /\ calls' = [calls EXCEPT ![t].planner = @ + 1]
        /\ leave([pc EXCEPT ![t] = "awaitPlan"], local)
        /\ UNCHANGED <<config, probe, host, modelReady, executor, rejected, updated, memory, caller, apiCalls, replies>>

\* modelClient.plan settles: planStep remembers the thought and emits
\* planning-finished, or the rejection is caught
PlannerSettles ==
    \E t \in TaskIds, reply \in plannerReplies(host) :
        /\ Idle
        /\ pc[t] = "awaitPlan"
        /\ replies < MaxReplies
        /\ replies' = replies + 1
        /\ stack' = <<Frame(t, FALSE)>>
        /\ IF IsSome(reply.thrown)
           THEN /\ catch(t, Get(reply.thrown), memory)
                /\ UNCHANGED local
           ELSE LET plan == Get(reply.value)
                IN  /\ memory' = remember(memory, t,
                                     Entry("thought", plan.thought, None))
                    /\ events' = emit(events, t, "planning-finished",
                                      [thought |-> plan.thought,
                                       action |-> plan.action,
                                       finish |-> plan.finish])
                    /\ hub' = forward(hub, t, "planning-finished",
                           [thought |-> plan.thought,
                           action |-> plan.action,
                           finish |-> plan.finish])
                    /\ local' = [local EXCEPT ![t].plan = Some(plan)]
                    /\ pc' = [pc EXCEPT ![t] = "planning-finished"]
                    /\ UNCHANGED tasks
        /\ UNCHANGED <<config, probe, host, modelReady, executor, rejected, updated, queue, activeTaskIds, caller, calls, apiCalls>>

NewStep(index, plan) ==
    [id |-> index, index |-> index, status |-> "running",
     action |-> plan.action, modelThought |-> plan.thought,
     observation |-> None]

createStepOneBased(task, plan) ==
    [task EXCEPT !.steps = Append(@, NewStep(Len(task.steps) + 1, plan)),
                 !.updatedAt = @ + 1]

\* createStep: the task after the push
createStep(task, plan) ==
    [task EXCEPT !.steps = Append(@, NewStep(Len(task.steps), plan)),
                 !.updatedAt = @ + 1]

notOkNever(validation) == FALSE

\* if (!validation.ok)
notOk(validation) == ~validation.ok

AfterPlanningFinishedActionFirst ==
    \E t \in TaskIds :
        /\ AtEmit(t, "planning-finished")
        /\ LET plan == Get(local[t].plan)
               mem == IF IsSome(plan.caution)
                      THEN remember(memory, t,
                               Entry("thought",
                                     <<"Safety note: ">> \o Get(plan.caution),
                                     None))
                      ELSE memory
           IN  IF plan.action = None
               THEN IF IsSome(plan.finish)
                    THEN completeFromFinish(t, Get(plan.finish).summary,
                                            Get(plan.finish), mem)
                    ELSE catch(t, NoActionMessage, mem)
               ELSE LET v == validateAction(Get(plan.action))
                    IN  IF IsSome(v.thrown)
                        THEN catch(t, Get(v.thrown), mem)
                        ELSE IF notOk(v)
                        THEN catch(t, InvalidActionMessage(v.issues), mem)
                        ELSE /\ tasks' = [tasks EXCEPT ![t] = createStep(@, plan)]
                             /\ events' = emit(events, t, "step-created",
                                    NewStep(Len(tasks[t].steps), plan))
                             /\ hub' = forward(hub, t, "step-created",
                                    NewStep(Len(tasks[t].steps), plan))
                             /\ memory' = mem
                             /\ pc' = [pc EXCEPT ![t] = "step-created"]
        /\ UNCHANGED <<config, probe, host, modelReady, executor, rejected, updated, queue, activeTaskIds, local, stack, caller, calls, apiCalls, replies>>

\* run after planStep returned the plan: caution, finish, the two checks of
\* the action and createStep up to emit("step-created")
AfterPlanningFinished ==
    \E t \in TaskIds :
        /\ AtEmit(t, "planning-finished")
        /\ LET plan == Get(local[t].plan)
               mem == IF IsSome(plan.caution)
                      THEN remember(memory, t,
                               Entry("thought",
                                     <<"Safety note: ">> \o Get(plan.caution),
                                     None))
                      ELSE memory
           IN  IF IsSome(plan.finish)
               THEN completeFromFinish(t, Get(plan.finish).summary,
                                       Get(plan.finish), mem)
               ELSE IF plan.action = None
               THEN catch(t, NoActionMessage, mem)
               ELSE LET v == validateAction(Get(plan.action))
                    IN  IF IsSome(v.thrown)
                        THEN catch(t, Get(v.thrown), mem)
                        ELSE IF notOk(v)
                        THEN catch(t, InvalidActionMessage(v.issues), mem)
                        ELSE /\ tasks' = [tasks EXCEPT ![t] = createStep(@, plan)]
                             /\ events' = emit(events, t, "step-created",
                                    NewStep(Len(tasks[t].steps), plan))
                             /\ hub' = forward(hub, t, "step-created",
                                    NewStep(Len(tasks[t].steps), plan))
                             /\ memory' = mem
                             /\ pc' = [pc EXCEPT ![t] = "step-created"]
        /\ UNCHANGED <<config, probe, host, modelReady, executor, rejected, updated, queue, activeTaskIds, local, stack, caller, calls, apiCalls, replies>>

\* executeStep up to emit("step-executing")
AfterStepCreated ==
    \E t \in TaskIds :
        /\ AtEmit(t, "step-created")
        /\ events' = emit(events, t, "step-executing",
                          Get(local[t].plan).action)
        /\ hub' = forward(hub, t, "step-executing",
               Get(local[t].plan).action)
        /\ pc' = [pc EXCEPT ![t] = "step-executing"]
        /\ UNCHANGED <<config, probe, host, modelReady, executor, rejected, updated, tasks, queue, activeTaskIds, memory, local,
                       stack, caller, calls,
                       apiCalls, replies>>

\* JSON.stringify(action.params), the keys in a fixed order
RECURSIVE stringify(_, _)
stringify(params, keys) ==
    IF keys = {} THEN <<>>
    ELSE LET k == CHOOSE x \in keys : TRUE
             v == IF params[k] = None THEN <<"null">>
                  ELSE <<"\"">> \o Get(params[k]) \o <<"\"">>
             rest == stringify(params, keys \ {k})
         IN  <<"\"", k, "\":">> \o v
               \o (IF rest = <<>> THEN <<>> ELSE <<",">> \o rest)

ActionText(action) ==
    <<action.type, " -> ", "{">>
      \o stringify(Get(action.params), DOMAIN Get(action.params)) \o <<"}">>

\* executeStep after emit("step-executing"): the action is remembered, the
\* executor is called and run suspends on it
AfterStepExecuting ==
    \E t \in TaskIds :
        /\ AtEmit(t, "step-executing")
        /\ memory' = remember(memory, t,
               Entry("action", ActionText(Get(Get(local[t].plan).action)), None))
        /\ calls' = [calls EXCEPT ![t].executor = @ + 1]
        /\ leave([pc EXCEPT ![t] = "awaitExec"],
                 [local EXCEPT ![t].by = executor])
        /\ UNCHANGED <<config, probe, host, modelReady, executor, rejected, updated, caller, apiCalls, replies>>

finaliseStepStillRunning(task, observation) ==
    [task EXCEPT
        !.steps[Len(task.steps)].observation = Some(observation),
        !.updatedAt = @ + 1]

finaliseStepInverted(task, observation) ==
    [task EXCEPT
        !.steps[Len(task.steps)].status =
            IF observation.result = "success" THEN "failed" ELSE "succeeded",
        !.steps[Len(task.steps)].observation = Some(observation),
        !.updatedAt = @ + 1]

\* finaliseStep: the task after the writes to the step run created last
finaliseStep(task, observation) ==
    [task EXCEPT
        !.steps[Len(task.steps)].status =
            IF observation.result = "success" THEN "succeeded" ELSE "failed",
        !.steps[Len(task.steps)].observation = Some(observation),
        !.updatedAt = @ + 1]

\* the executor settles: finaliseStep up to emit("step-updated"), or the
\* rejection is caught
ExecutorSettles ==
    \E t \in TaskIds :
      /\ Idle
      /\ pc[t] = "awaitExec"
      /\ \E reply \in executorReplies(local[t].by,
                                       Get(Get(local[t].plan).action)) :
        /\ stack' = <<Frame(t, FALSE)>>
        /\ IF IsSome(reply.thrown)
           THEN /\ catch(t, Get(reply.thrown), memory)
                /\ UNCHANGED local
           ELSE LET execution == Get(reply.value)
                    observation == execution.observation
                    after == finaliseStep(tasks[t], observation)
                IN  /\ tasks' = [tasks EXCEPT ![t] = after]
                    /\ memory' = remember(memory, t,
                           Entry("observation",
                                 <<toUpperCase(observation.result), ": ">>
                                    \o observation.message,
                                 observation.data))
                    /\ events' = emit(events, t, "step-updated",
                                      after.steps[Len(after.steps)])
                    /\ hub' = forward(hub, t, "step-updated",
                           after.steps[Len(after.steps)])
                    /\ local' = [local EXCEPT ![t].execution = Some(execution)]
                    /\ pc' = [pc EXCEPT ![t] = "step-updated"]
        /\ UNCHANGED <<config, probe, host, modelReady, executor, rejected, updated, queue, activeTaskIds, caller, calls, apiCalls, replies>>

terminatesOnError(execution) ==
    execution.didTerminate \/ execution.observation.result = "error"

\* if (execution.didTerminate)
terminates(execution) == execution.didTerminate

\* run after finaliseStep: the terminal observation ends the task through
\* finishTask (up to its emit), otherwise the loop goes on
AfterStepUpdated ==
    \E t \in TaskIds :
        /\ AtEmit(t, "step-updated")
        /\ LET execution == Get(local[t].execution)
           IN  IF terminates(execution)
               THEN LET synthesised == execution.summary = None
                        summary ==
                            IF synthesised
                            THEN summaryText(tasks[t].goal, execution.observation)
                            ELSE Get(execution.summary)
                    IN  /\ memory' =
                              IF synthesised
                              THEN summariseMemory(memory, t, tasks[t].goal,
                                                   execution.observation)
                              ELSE memory
                        /\ tasks' = [tasks EXCEPT ![t] = finishTask(@, summary)]
                        /\ events' = emit(events, t, "task-completed", summary)
                        /\ hub' = forward(hub, t, "task-completed", summary)
                        /\ pc' = [pc EXCEPT ![t] = "task-completed"]
                        /\ UNCHANGED local
               ELSE enterLoop(t, local[t].iteration + 1)
        /\ UNCHANGED <<config, probe, host, modelReady, executor, rejected, updated, queue, activeTaskIds, stack, caller, calls, apiCalls, replies>>

failByErrorStillRunning(task) == [task EXCEPT !.updatedAt = @ + 1]

\* the catch block after emit("task-error"): the task fields it writes
failByError(task) == [task EXCEPT !.updatedAt = @ + 1, !.status = "failed"]

\* the catch block after emit("task-error")
AfterTaskError ==
    \E t \in TaskIds :
        /\ AtEmit(t, "task-error")
        /\ tasks' = [tasks EXCEPT ![t] = failByError(@)]
        /\ events' = emit(events, t, "task-failed", Get(tasks[t].lastError))
        /\ hub' = forward(hub, t, "task-failed", Get(tasks[t].lastError))
        /\ pc' = [pc EXCEPT ![t] = "task-failed"]
        /\ UNCHANGED <<config, probe, host, modelReady, executor, rejected, updated, queue, activeTaskIds, memory, local, stack,
                       caller, calls, apiCalls,
                       replies>>

\* finishTask after emit("task-completed"): the summary is remembered and
\* run returns
AfterTaskCompleted ==
    \E t \in TaskIds :
        /\ AtEmit(t, "task-completed")
        /\ memory' = remember(memory, t,
                         Entry("summary", Get(tasks[t].summary), None))
        /\ leave([pc EXCEPT ![t] = "returned"], local)
        /\ UNCHANGED <<config, probe, host, modelReady, executor, rejected, updated, caller, calls, apiCalls, replies>>

\* run returns after emit("task-failed")
AfterTaskFailed ==
    \E t \in TaskIds :
        /\ AtEmit(t, "task-failed")
        /\ leave([pc EXCEPT ![t] = "returned"], local)
        /\ UNCHANGED <<config, probe, host, modelReady, executor, rejected, updated, memory, caller, calls, apiCalls,
                       replies>>

releaseNothing(active, t) == active

\* activeTaskIds.delete(task.id)
release(active, t) == active \ {t}

\* the then-callback of drainQueue: runTask(task) fulfilled
RunSettles ==
    \E t \in TaskIds :
        /\ Idle
        /\ pc[t] = "returned"
        /\ caller' = [caller EXCEPT ![t] = "resolved"]
        /\ drainQueue(queue, release(activeTaskIds, t),
                      [pc EXCEPT ![t] = "settled"], local, <<>>)
        /\ UNCHANGED <<config, probe, host, modelReady, executor, rejected, updated, memory, calls, apiCalls, replies>>

ListenerMessage == <<"listener failed">>

\* a listener of task-started throws: emit("task-started") is outside the
\* try of run, so the promise of run is rejected with the error; run was
\* entered synchronously, so control goes back to the caller of runTask
ListenerThrows ==
    \E t \in TaskIds :
        /\ AtEmit(t, "task-started")
        /\ replies < MaxReplies
        /\ replies' = replies + 1
        /\ leave([pc EXCEPT ![t] = "threw"], local)
        /\ UNCHANGED <<config, probe, host, modelReady, executor, rejected, updated,
                       memory, caller, calls, apiCalls>>

failRunNoError(task, message) ==
    [task EXCEPT !.status = "failed", !.updatedAt = @ + 1]

\* the catch block of runTask: the task fields it writes
failRun(task, message) ==
    [task EXCEPT !.status = "failed", !.updatedAt = @ + 1,
                 !.lastError = Some(message)]

\* the catch block of runTask: run was rejected; the task is failed,
\* task-failed is emitted and the error is thrown again
RunTaskCatch ==
    \E t \in TaskIds :
        /\ Idle
        /\ pc[t] = "threw"
        /\ tasks' = [tasks EXCEPT ![t] = failRun(@, ListenerMessage)]
        /\ events' = emit(events, t, "task-failed", ListenerMessage)
        /\ hub' = forward(hub, t, "task-failed", ListenerMessage)
        /\ pc' = [pc EXCEPT ![t] = "rethrown"]
        /\ UNCHANGED <<config, probe, host, modelReady, executor, rejected, updated,
                       queue, activeTaskIds, memory, local, stack, caller,
                       calls, apiCalls, replies>>

\* the catch-callback of drainQueue: runTask(task) rejected
RunRejects ==
    \E t \in TaskIds :
        /\ Idle
        /\ pc[t] = "rethrown"
        /\ caller' = [caller EXCEPT ![t] = "rejected"]
        /\ drainQueue(queue, release(activeTaskIds, t),
                      [pc EXCEPT ![t] = "settled"], local, <<>>)
        /\ UNCHANGED <<config, probe, host, modelReady, executor, rejected, updated,
                       memory, calls, apiCalls, replies>>

\* { ...(task.context ?? {}), ...patch }
mergeContext(context, patch) ==
    LET old == IF context = None THEN <<>> ELSE Get(context)
    IN  [k \in DOMAIN old \cup DOMAIN patch |->
            IF k \in DOMAIN patch THEN patch[k] ELSE old[k]]

\* updateTaskContext, its emit of task-updated included (its last statement)
updateTaskContext(t, patch) ==
    /\ t \in DOMAIN tasks
    /\ apiCalls < MaxCalls
    /\ apiCalls' = apiCalls + 1
    /\ tasks' = [tasks EXCEPT
                    ![t].context = Some(mergeContext(tasks[t].context, patch)),
                    ![t].updatedAt = @ + 1]
    /\ updated' = [updated EXCEPT ![t] = @ + 1]
    /\ UNCHANGED <<config, probe, host, modelReady, executor, rejected, queue, activeTaskIds, memory, pc, local, stack,
                   events, hub, caller, calls, replies>>

\* a client calls updateTaskContext from the event loop
UpdateTaskContext ==
    /\ Idle
    /\ \E t \in TaskIds, patch \in ContextPatches : updateTaskContext(t, patch)

\* registerExecutor, called by the host from the event loop
RegisterExecutor ==
    /\ Idle
    /\ executor = "default"
    /\ apiCalls < MaxCalls
    /\ apiCalls' = apiCalls + 1
    /\ executor' = host
    /\ UNCHANGED <<config, probe, host, modelReady, rejected, tasks, queue,
                   activeTaskIds, memory, pc, local, stack, events, hub, updated,
                   caller, calls, replies>>

\* ------------------------------------------------------------------- Next
Next ==
    \/ RegisterExecutor
    \/ CreateTask
    \/ ListenerCreateTask
    \/ Enqueue
    \/ AfterTaskStarted
    \/ AfterPlanningStarted
    \/ PlannerSettles
    \/ AfterPlanningFinished
    \/ AfterStepCreated
    \/ AfterStepExecuting
    \/ ExecutorSettles
    \/ AfterStepUpdated
    \/ AfterTaskError
    \/ AfterTaskCompleted
    \/ AfterTaskFailed
    \/ RunSettles
    \/ ListenerThrows
    \/ RunTaskCatch
    \/ RunRejects
    \/ UpdateTaskContext

Spec == Init /\ [][Next]_vars

SpecBrowser == InitBrowser /\ [][Next]_vars

\* ------------------------------------------------------------ subscribers
\* listTasks: the tasks of the store, the newest first
listTasks == [i \in 1..Len(tasks) |-> tasks[Len(tasks) + 1 - i]]

\* getTools: Object.values(TOOL_DEFINITIONS), here the names of the tools
getTools ==
    <<"navigate", "click", "type", "wait", "scroll", "extract", "finish">>

\* the subscriber that connects next
NextSubscriber == CHOOSE s \in Subscribers :
    /\ hub.state[s] = "none"
    /\ \A r \in Subscribers : r < s => hub.state[r] # "none"

subscribeNoSnapshot(h, s) ==
    [h EXCEPT !.subscribers = Append(@, s), !.state[s] = "live"]

\* subscribe: the webContents joins the set and is sent the snapshot
subscribe(h, s) ==
    [h EXCEPT !.subscribers = Append(@, s),
              !.state[s] = "live",
              !.inbox[s] = Append(@, Message("snapshot",
                              [tasks |-> listTasks, tools |-> getTools,
                               port |-> "port"]))]

\* the sidebar asks for the events of the agent: AgentBridge.subscribe
Subscribe ==
    /\ Idle
    /\ apiCalls < MaxCalls
    /\ \E s \in Subscribers : hub.state[s] = "none"
    /\ apiCalls' = apiCalls + 1
    /\ hub' = subscribe(hub, NextSubscriber)
    /\ UNCHANGED <<config, probe, host, modelReady, executor, rejected, tasks,
                   queue, activeTaskIds, memory, pc, local, stack, events,
                   updated, caller, calls, replies>>

\* a client connects to /events: the socket is among the clients of the
\* WebSocketServer when the connection listener sends the snapshot
Connection ==
    /\ Idle
    /\ apiCalls < MaxCalls
    /\ \E s \in Subscribers : hub.state[s] = "none"
    /\ apiCalls' = apiCalls + 1
    /\ LET s == NextSubscriber
       IN  hub' = [hub EXCEPT
                      !.clients = Append(@, s),
                      !.state[s] = "open",
                      !.inbox[s] = Append(@, Message("snapshot",
                                      [tasks |-> listTasks,
                                       tools |-> getTools]))]
    /\ UNCHANGED <<config, probe, host, modelReady, executor, rejected, tasks,
                   queue, activeTaskIds, memory, pc, local, stack, events,
                   updated, caller, calls, replies>>

destroyedKeeps(h, s) == [h EXCEPT !.state[s] = "destroyed"]

\* the listener subscribe registered with once("destroyed")
destroyed(h, s) ==
    [h EXCEPT !.state[s] = "destroyed", !.subscribers = Without(@, s)]

\* a webContents is destroyed; its destroyed event runs the listener
Destroyed ==
    /\ Idle
    /\ \E s \in Subscribers :
          /\ hub.state[s] \in {"live", "broken"}
          /\ hub' = destroyed(hub, s)
    /\ UNCHANGED <<config, probe, host, modelReady, executor, rejected, tasks,
                   queue, activeTaskIds, memory, pc, local, stack, events,
                   updated, caller, calls, apiCalls, replies>>

\* the render frame of a webContents is disposed while the webContents is
\* not destroyed: webContents.send throws from now on
FrameDisposed ==
    /\ Idle
    /\ \E s \in Subscribers :
          /\ hub.state[s] = "live"
          /\ hub' = [hub EXCEPT !.state[s] = "broken"]
    /\ UNCHANGED <<config, probe, host, modelReady, executor, rejected, tasks,
                   queue, activeTaskIds, memory, pc, local, stack, events,
                   updated, caller, calls, apiCalls, replies>>

\* a socket starts to close: its readyState is CLOSING and it is still
\* among the clients
SocketCloses ==
    /\ Idle
    /\ \E s \in Subscribers :
          /\ hub.state[s] = "open"
          /\ hub' = [hub EXCEPT !.state[s] = "closing"]
    /\ UNCHANGED <<config, probe, host, modelReady, executor, rejected, tasks,
                   queue, activeTaskIds, memory, pc, local, stack, events,
                   updated, caller, calls, apiCalls, replies>>

\* the close of a socket completes: the WebSocketServer drops the client
SocketClosed ==
    /\ Idle
    /\ \E s \in Subscribers :
          /\ hub.state[s] = "closing"
          /\ hub' = [hub EXCEPT !.state[s] = "closed",
                                !.clients = Without(@, s)]
    /\ UNCHANGED <<config, probe, host, modelReady, executor, rejected, tasks,
                   queue, activeTaskIds, memory, pc, local, stack, events,
                   updated, caller, calls, apiCalls, replies>>

\* the emit the coroutine of t is in lies inside the try of run
InTry(t) ==
    \/ pc[t] \in {"planning-started", "planning-finished", "step-created",
                  "step-updated", "task-completed"}
    \/ /\ pc[t] = "task-failed"
       /\ loopContinues(local[t].iteration)
       /\ \A i \in DOMAIN events[t] : events[t][i].type # "task-error"

\* an emit inside the try of run throws: the catch block of run
EmitThrowsInTry ==
    \E t \in TaskIds :
        /\ stack # <<>> /\ Head(stack).task = t
        /\ InTry(t)
        /\ emitThrows(pc[t])
        /\ catch(t, ListenerMessage, memory)
        /\ UNCHANGED <<config, probe, host, modelReady, executor, rejected,
                       updated, queue, activeTaskIds, local, stack, caller,
                       calls, apiCalls, replies>>

\* an emit of run outside its try throws (task-started, the emits of the
\* catch block, the emit after the loop): the promise of run is rejected
EmitThrowsOutside ==
    \E t \in TaskIds :
        /\ stack # <<>> /\ Head(stack).task = t
        /\ pc[t] \in {"task-started", "task-error", "task-failed"}
        /\ ~InTry(t)
        /\ emitThrows(pc[t])
        /\ leave([pc EXCEPT ![t] = "threw"], local)
        /\ UNCHANGED <<config, probe, host, modelReady, executor, rejected,
                       updated, memory, caller, calls, apiCalls, replies>>

\* the emit of task-created throws: createTask is rejected after
\* tasks.set and before enqueue
EmitThrowsCreating ==
    \E t \in TaskIds :
        /\ stack # <<>> /\ Head(stack).task = t
        /\ pc[t] = "creating"
        /\ emitThrows(pc[t])
        /\ pc' = [pc EXCEPT ![t] = "dropped"]
        /\ caller' = [caller EXCEPT ![t] = "rejected"]
        /\ stack' = Tail(stack)
        /\ UNCHANGED <<config, probe, host, modelReady, executor, rejected,
                       tasks, queue, activeTaskIds, memory, local, events,
                       updated, calls, apiCalls, replies, hub>>

\* the runtime behind the server and the bridge, with subscribers
NextHub ==
    \/ Next
    \/ Subscribe
    \/ Connection
    \/ Destroyed
    \/ FrameDisposed
    \/ SocketCloses
    \/ SocketClosed
    \/ EmitThrowsInTry
    \/ EmitThrowsOutside
    \/ EmitThrowsCreating

SpecHub == Init /\ [][NextHub]_vars

\* the steps the program takes by itself: the continuation of a handler
\* that is running, the callbacks of settled promises, and the replies of
\* the planner and of the executor, whose calls return or throw
Progress ==
    \/ Enqueue
    \/ AfterTaskStarted
    \/ AfterPlanningStarted
    \/ PlannerSettles
    \/ AfterPlanningFinished
    \/ AfterStepCreated
    \/ AfterStepExecuting
    \/ ExecutorSettles
    \/ AfterStepUpdated
    \/ AfterTaskError
    \/ AfterTaskCompleted
    \/ AfterTaskFailed
    \/ RunSettles
    \/ RunTaskCatch
    \/ RunRejects

\* the runtime on an event loop that runs every handler and callback that
\* is ready
LiveSpec == Init /\ [][Next]_vars /\ WF_vars(Progress)

\* ================================================================ claims
Terminal(t) == tasks[t].status \in {"succeeded", "failed"}

Running == { t \in DOMAIN tasks : tasks[t].status = "running" }

Emitted(t, type) == \E i \in DOMAIN events[t] : events[t][i].type = type

\* C1: at every moment the number of tasks with status running, and the
\* size of activeTaskIds, is at most maxParallelTasks; this holds while
\* drainQueue is in mid-loop and a listener has created further tasks.
C1_ParallelismBound ==
    /\ Cardinality(Running) <= config.maxParallelTasks
    /\ Cardinality(activeTaskIds) <= config.maxParallelTasks

\* C1 witness: a listener created a task from inside drainQueue's emit of
\* task-started while the runtime is at its limit and another task waits
C1_Witness ==
    /\ Len(stack) >= 2
    /\ pc[Head(stack).task] = "creating"
    /\ stack[2].inDrain
    /\ Cardinality(activeTaskIds) = config.maxParallelTasks
    /\ Cardinality(Running) = config.maxParallelTasks
    /\ queue # <<>>

\* the tasks that a step starts: pending before it, running after it
Started == { t \in DOMAIN tasks :
                tasks[t].status = "pending" /\ tasks'[t].status = "running" }

\* the queue of a step after its push, if enqueue runs in the step
Pushed ==
    LET entered == { t \in DOMAIN tasks :
                        pc[t] = "creating" /\ pc'[t] # "creating" }
    IN  IF entered = {} THEN queue
        ELSE Append(queue, CHOOSE t \in entered : TRUE)

\* C2: tasks start in the order in which they were enqueued: entries join
\* the queue at its tail only, a task that starts is the entry at the head
\* of the queue, and no other entry leaves the queue; so no entry starts
\* while an entry enqueued before it still waits.
C2_FifoStart ==
    [][/\ Cardinality(Started) <= 1
       /\ Started = {} => queue' = Pushed
       /\ Started # {} => /\ Pushed # <<>>
                          /\ Started = {Head(Pushed)}
                          /\ queue' = Tail(Pushed)]_vars

\* C2 witness: with one slot, task 3 was enqueued before task 2 (by a
\* listener of task-created for task 2) and runs while task 2 still waits
C2_Witness ==
    /\ config.maxParallelTasks = 1
    /\ Len(tasks) = 3
    /\ pc[1] = "settled"
    /\ tasks[3].status = "running"
    /\ tasks[2].status = "pending"
    /\ queue = <<2>>

\* C3: a task never holds more than maxSteps steps.
C3_StepBudget ==
    \A t \in DOMAIN tasks : Len(tasks[t].steps) <= config.maxSteps

\* C3 witness: a task holds maxSteps steps and its loop has come round again
C3_Witness ==
    \E t \in DOMAIN tasks :
        /\ Len(tasks[t].steps) = config.maxSteps
        /\ local[t].iteration = config.maxSteps

\* the planner returned, each time, an action without a finish directive,
\* and validateAction accepted it
AlwaysValidAction(t) ==
    \A i \in DOMAIN events[t] :
        events[t][i].type = "planning-finished" =>
            LET plan == events[t][i].payload
            IN  /\ plan.finish = None
                /\ IsSome(plan.action)
                /\ validateAction(Get(plan.action)).thrown = None
                /\ validateAction(Get(plan.action)).ok

\* the promise of run(t) was rejected: an error left run uncaught
RunRejected(t) == pc[t] \in {"threw", "rethrown"} \/ caller[t] = "rejected"

\* neither the planner nor the executor threw, no error left run uncaught,
\* and the executor did not report didTerminate (a report of it ends the
\* task, so only the last result of the executor can carry it)
NeverThrewNorTerminated(t) ==
    /\ ~Emitted(t, "task-error")
    /\ ~RunRejected(t)
    /\ IsSome(local[t].execution) => ~Get(local[t].execution).didTerminate

\* C4: when every plan is a valid action without finish and the executor
\* neither throws nor reports didTerminate, the task ends failed with
\* exactly maxSteps steps, its summary and lastError contain the message of
\* the exhausted budget, and the planner was called maxSteps times, never
\* once more.
C4_BudgetExhausted ==
    \A t \in DOMAIN tasks :
        /\ calls[t].planner <= config.maxSteps
        /\ (pc[t] \in {"task-failed", "task-completed", "returned", "settled"}
              /\ NeverThrewNorTerminated(t) /\ AlwaysValidAction(t))
           => /\ tasks[t].status = "failed"
              /\ Len(tasks[t].steps) = config.maxSteps
              /\ IsSome(tasks[t].summary)
              /\ Contains(Get(tasks[t].summary), MaxStepMessage)
              /\ IsSome(tasks[t].lastError)
              /\ Contains(Get(tasks[t].lastError), MaxStepMessage)
              /\ calls[t].planner = config.maxSteps

\* C4 witness: a task of the configuration with two steps used its budget up
C4_Witness ==
    \E t \in DOMAIN tasks :
        /\ config.maxSteps = MaxSteps
        /\ AlwaysValidAction(t) /\ NeverThrewNorTerminated(t)
        /\ pc[t] = "settled"
        /\ Len(tasks[t].steps) = MaxSteps

CountEvents(t, type) ==
    Cardinality({ i \in DOMAIN events[t] : events[t][i].type = type })

\* the plan the orchestrator holds for t is an action that validateAction
\* answered with ok = false, and run has gone past the check
InvalidPlanHandled(t) ==
    /\ IsSome(local[t].plan)
    /\ pc[t] \notin {"task-started", "planning-started", "awaitPlan",
                     "planning-finished"}
    /\ LET plan == Get(local[t].plan)
       IN  /\ plan.finish = None
           /\ IsSome(plan.action)
           /\ validateAction(Get(plan.action)).thrown = None
           /\ ~validateAction(Get(plan.action)).ok

\* C5: every step carries an action that validateAction accepts; when the
\* action of a plan fails validation no step is appended, no step-created
\* is emitted and the executor is not called for it, and the task fails
\* with a lastError that lists the issues.
C5_NoStepFromInvalidPlan ==
    \A t \in DOMAIN tasks :
        /\ \A i \in DOMAIN tasks[t].steps :
              LET action == tasks[t].steps[i].action
              IN  IsSome(action) /\ validateAction(Get(action)).ok
        /\ InvalidPlanHandled(t) =>
              LET issues == validateAction(Get(Get(local[t].plan).action)).issues
              IN  /\ Len(tasks[t].steps) = CountEvents(t, "planning-finished") - 1
                  /\ CountEvents(t, "step-created") = Len(tasks[t].steps)
                  /\ calls[t].executor = Len(tasks[t].steps)
                  /\ issues # <<>>
                  /\ tasks[t].lastError = Some(InvalidActionMessage(issues))
                  /\ \A k \in DOMAIN issues :
                        Contains(Get(tasks[t].lastError), issues[k])
                  /\ pc[t] # "task-error" => tasks[t].status = "failed"

\* C5 witness: after one step, a plan with two missing parameters failed
\* the task
C5_Witness ==
    \E t \in DOMAIN tasks :
        /\ InvalidPlanHandled(t)
        /\ pc[t] = "settled"
        /\ Len(tasks[t].steps) = 1
        /\ Len(validateAction(Get(Get(local[t].plan).action)).issues) = 2

\* C6: once a task is succeeded or failed its status stays, its steps stay
\* as they are (none appended, none changed), and neither the planner nor
\* the executor is called for it again.
C6_TerminalAbsorbing ==
    [][\A t \in DOMAIN tasks :
          Terminal(t) => /\ tasks'[t].status = tasks[t].status
                         /\ tasks'[t].steps = tasks[t].steps
                         /\ calls'[t] = calls[t]]_vars

\* C6 witness: a task with a step has ended and settled, and the runtime
\* went on to run a later task up to its own end
C6_Witness ==
    \E t, u \in DOMAIN tasks :
        /\ t # u
        /\ pc[t] = "settled" /\ Terminal(t) /\ tasks[t].steps # <<>>
        /\ pc[u] = "settled" /\ Terminal(u)
        /\ tasks[t].updatedAt > 0

\* C7: after a task is succeeded or failed no operation of the runtime
\* changes a field of it; updateTaskContext on such a task leaves context
\* and updatedAt as they were.
C7_TerminalTaskFrozen ==
    [][\A t \in DOMAIN tasks :
          Terminal(t) => /\ tasks'[t].context = tasks[t].context
                         /\ tasks'[t].updatedAt = tasks[t].updatedAt
                         /\ tasks'[t] = tasks[t]]_vars

\* C8: the step at position i of task.steps has index i (positions counted
\* from 0 in the code, from 1 in a sequence here).
C8_DenseIndices ==
    \A t \in DOMAIN tasks :
        \A i \in DOMAIN tasks[t].steps : tasks[t].steps[i].index = i - 1

\* C8 witness: a task holds two steps
C8_Witness ==
    \E t \in DOMAIN tasks :
        /\ Len(tasks[t].steps) = 2
        /\ tasks[t].steps[2].index = 1

StepDone(step) == step.status \in {"succeeded", "failed"}

\* C9: a step that is succeeded or failed has an observation, and it is
\* succeeded exactly when the result of the observation is success.
C9_StepObservation ==
    \A t \in DOMAIN tasks :
        \A i \in DOMAIN tasks[t].steps :
            LET step == tasks[t].steps[i]
            IN  StepDone(step) =>
                   /\ IsSome(step.observation)
                   /\ step.status = "succeeded"
                        <=> Get(step.observation).result = "success"

\* C9 witness: a task holds a step that succeeded and a step that failed
C9_Witness ==
    \E t \in DOMAIN tasks :
        /\ Len(tasks[t].steps) = 2
        /\ tasks[t].steps[1].status = "succeeded"
        /\ tasks[t].steps[2].status = "failed"
        /\ Get(tasks[t].steps[2].observation).result = "error"

\* the plan the orchestrator holds for t carries a finish directive, and
\* run has acted on it
FinishHandled(t) ==
    /\ IsSome(local[t].plan)
    /\ IsSome(Get(local[t].plan).finish)
    /\ pc[t] \in {"task-completed", "task-failed", "returned", "settled"}

LastEvent(t) == events[t][Len(events[t])]

\* C10: a plan with a finish directive ends the task with no step created
\* and no call of the executor for it; success gives status succeeded, the
\* summary of the directive and task-completed with that summary; failed
\* gives status failed, lastError and summary equal to the summary of the
\* directive and task-failed with that summary as its error.
C10_FinishDirective ==
    \A t \in DOMAIN tasks :
        FinishHandled(t) =>
            LET finish == Get(Get(local[t].plan).finish)
            IN  /\ Len(tasks[t].steps) = CountEvents(t, "planning-finished") - 1
                /\ CountEvents(t, "step-created") = Len(tasks[t].steps)
                /\ calls[t].executor = Len(tasks[t].steps)
                /\ tasks[t].summary = Some(finish.summary)
                /\ LastEvent(t).payload = finish.summary
                /\ finish.status = "success" =>
                      /\ tasks[t].status = "succeeded"
                      /\ LastEvent(t).type = "task-completed"
                      /\ ~Emitted(t, "task-failed")
                /\ finish.status = "failed" =>
                      /\ tasks[t].status = "failed"
                      /\ tasks[t].lastError = Some(finish.summary)
                      /\ LastEvent(t).type = "task-failed"
                      /\ ~Emitted(t, "task-completed")

\* C10 witness: one task ended by a finish directive of success,
\* another by a finish directive of failed
C10_Witness ==
    \E t, u \in DOMAIN tasks :
        /\ FinishHandled(t) /\ pc[t] = "settled"
        /\ Get(Get(local[t].plan).finish).status = "success"
        /\ FinishHandled(u) /\ pc[u] = "settled"
        /\ Get(Get(local[u].plan).finish).status = "failed"

\* the event at position i of t's log is the task-error of an executor that
\* threw: it follows step-executing with nothing in between
ExecutorThrewAt(t, i) ==
    /\ i > 1
    /\ events[t][i].type = "task-error"
    /\ events[t][i - 1].type = "step-executing"

ErrorEntry(message) == Entry("observation", <<"Error: ">> \o message, None)

\* C11: when the executor throws, the error is the last entry of the task's
\* memory, as an observation; lastError is the error text; task-error is
\* emitted and then task-failed with the same text, and nothing after it;
\* the task is failed; and the planner and the executor have been called
\* only for the planning-started and step-executing events before the error.
C11_ExecutorThrows ==
    \A t \in DOMAIN tasks :
        \A i \in DOMAIN events[t] :
            ExecutorThrewAt(t, i) =>
                LET message == events[t][i].payload
                    n == Len(events[t])
                IN  /\ tasks[t].lastError = Some(message)
                    /\ memory[t] # <<>>
                    /\ memory[t][Len(memory[t])] = ErrorEntry(message)
                    /\ calls[t].planner = CountEvents(t, "planning-started")
                    /\ calls[t].executor = CountEvents(t, "step-executing")
                    /\ i = n \/ (n = i + 1 /\ events[t][n] = Event("task-failed", message))
                    /\ pc[t] = "task-error" <=> i = n
                    /\ pc[t] # "task-error" => tasks[t].status = "failed"

\* C11 witness: the executor threw on the second step of a task, which has
\* ended and settled
C11_Witness ==
    \E t \in DOMAIN tasks :
        /\ pc[t] = "settled"
        /\ Len(tasks[t].steps) = 2
        /\ ExecutorThrewAt(t, Len(events[t]) - 1)

\* the event at position i of t's log is the task-error of a planner call
\* that failed: it follows planning-started with nothing in between
PlannerFailedAt(t, i) ==
    /\ i > 1
    /\ events[t][i].type = "task-error"
    /\ events[t][i - 1].type = "planning-started"

\* the event at position i of t's log is the task-error of a plan that has
\* neither an action nor a finish directive
NoDirectiveAt(t, i) ==
    /\ i > 1
    /\ events[t][i].type = "task-error"
    /\ events[t][i - 1].type = "planning-finished"
    /\ events[t][i - 1].payload.action = None
    /\ events[t][i - 1].payload.finish = None

\* C12: a planner call that fails, or a plan without action and finish,
\* fails the task at once: the error is followed by task-failed only, the
\* task is failed with the error as lastError, no step and no executor call
\* was made for the iteration, and the planner is not called again.
C12_NoRetry ==
    \A t \in DOMAIN tasks :
        \A i \in DOMAIN events[t] :
            (PlannerFailedAt(t, i) \/ NoDirectiveAt(t, i)) =>
                LET n == Len(events[t])
                    earlier == CountEvents(t, "planning-started") - 1
                IN  /\ i = n \/ (n = i + 1 /\ events[t][n].type = "task-failed")
                    /\ pc[t] = "task-error" <=> i = n
                    /\ pc[t] # "task-error" => tasks[t].status = "failed"
                    /\ tasks[t].lastError = Some(events[t][i].payload)
                    /\ PlannerFailedAt(t, i) =>
                          events[t][i].payload = UnparsableMessage
                    /\ NoDirectiveAt(t, i) =>
                          events[t][i].payload = NoActionMessage
                    /\ Len(tasks[t].steps) = earlier
                    /\ CountEvents(t, "step-created") = earlier
                    /\ calls[t].executor = earlier
                    /\ calls[t].planner = earlier + 1

\* C12 witness: one task ended on an unparsable reply of the planner and
\* another on a plan without action and finish
C12_Witness ==
    \E t, u \in DOMAIN tasks :
        /\ pc[t] = "settled" /\ PlannerFailedAt(t, Len(events[t]) - 1)
        /\ pc[u] = "settled" /\ NoDirectiveAt(u, Len(events[u]) - 1)

\* the last result of the executor for t is an error that is not terminal
ErrorNotTerminal(t) ==
    /\ IsSome(local[t].execution)
    /\ Get(local[t].execution).observation.result = "error"
    /\ ~Get(local[t].execution).didTerminate

\* the memory entry finaliseStep writes for the last result of the executor
ObservationEntry(t) ==
    LET observation == Get(local[t].execution).observation
    IN  Entry("observation",
              <<toUpperCase(observation.result), ": ">> \o observation.message,
              observation.data)

InRecent(mem, t, entry) ==
    \E k \in DOMAIN getRecent(mem, t, 16) : getRecent(mem, t, 16)[k] = entry

\* C13: an error result without didTerminate does not end the task: the
\* step is failed and, when run goes on from step-updated, the task is still
\* running and (if steps are left) the next planning starts with the error
\* observation among the recent memory, followed by the call of the planner;
\* if no step is left the budget ends the task.
C13_ErrorContinues ==
    [][\A t \in DOMAIN tasks :
          ErrorNotTerminal(t) =>
              /\ (pc[t] = "step-updated" /\ pc'[t] # "step-updated") =>
                    /\ tasks[t].status = "running"
                    /\ tasks'[t].steps = tasks[t].steps
                    /\ tasks[t].steps[Len(tasks[t].steps)].status = "failed"
                    /\ IF local[t].iteration + 1 < config.maxSteps
                       THEN /\ tasks'[t].status = "running"
                            /\ pc'[t] = "planning-started"
                            /\ InRecent(memory', t, ObservationEntry(t))
                            /\ events'[t][Len(events'[t])] =
                                 Event("planning-started",
                                       Len(getRecent(memory', t, 16)))
                       ELSE /\ pc'[t] = "task-failed"
                            /\ tasks'[t].status = "failed"
              /\ (pc[t] = "planning-started" /\ pc'[t] # "planning-started") =>
                    /\ pc'[t] = "awaitPlan"
                    /\ tasks'[t].status = "running"
                    /\ calls'[t].planner = calls[t].planner + 1
                    /\ InRecent(memory', t, ObservationEntry(t))]_vars

\* C13 witness: after a step that failed with a non-terminal error the
\* planner has been called a second time and the task waits for its reply
C13_Witness ==
    \E t \in DOMAIN tasks :
        /\ ErrorNotTerminal(t)
        /\ pc[t] = "awaitPlan"
        /\ tasks[t].status = "running"
        /\ calls[t].planner = 2
        /\ tasks[t].steps[1].status = "failed"

\* the last result of the executor for t has didTerminate set
Terminated(t) ==
    IsSome(local[t].execution) /\ Get(local[t].execution).didTerminate

\* execution.summary ?? memory.summarise(task, execution.observation)
TerminalSummary(t) ==
    LET execution == Get(local[t].execution)
    IN  IF IsSome(execution.summary) THEN Get(execution.summary)
        ELSE summaryText(tasks[t].goal, execution.observation)

\* C14: a result with didTerminate ends the task: once run has acted on it
\* the task is succeeded, its summary is execution.summary when present and
\* otherwise the text summarise builds from the observation, task-completed
\* with that summary is the last event and task-failed was never emitted;
\* the result of the observation plays no part.
C14_DidTerminate ==
    \A t \in DOMAIN tasks :
        Terminated(t) =>
            /\ pc[t] \in {"step-updated", "task-completed", "returned", "settled"}
            /\ pc[t] # "step-updated" =>
                  /\ tasks[t].status = "succeeded"
                  /\ tasks[t].summary = Some(TerminalSummary(t))
                  /\ LastEvent(t) = Event("task-completed", TerminalSummary(t))
                  /\ ~Emitted(t, "task-failed")

\* C14 witness: one task ended on a terminal error result that carried a
\* summary, another on a terminal success result without one
C14_Witness ==
    \E t, u \in DOMAIN tasks :
        /\ Terminated(t) /\ pc[t] = "settled"
        /\ Get(local[t].execution).observation.result = "error"
        /\ IsSome(Get(local[t].execution).summary)
        /\ Terminated(u) /\ pc[u] = "settled"
        /\ Get(local[u].execution).observation.result = "success"
        /\ Get(local[u].execution).summary = None

\* step i of task t ran a navigate to a blocked URL in the executor of
\* createAgentExecutor while the window had a tab: the policy refused it
RefusedByPolicy(t, i) ==
    LET step == tasks[t].steps[i]
        action == Get(step.action)
    IN  /\ action.type = "navigate"
        /\ IsSome(action.params)
        /\ "url" \in DOMAIN Get(action.params)
        /\ blocked(Get(action.params).url)
        /\ IsSome(step.observation)
        /\ Get(step.observation).message
              = BlockedMessage(Get(action.params).url)

C15_RefusedIsError ==
    \A t \in DOMAIN tasks :
        \A i \in DOMAIN tasks[t].steps :
            RefusedByPolicy(t, i) =>
                /\ Get(tasks[t].steps[i].observation).result = "error"
                /\ tasks[t].steps[i].status = "failed"

CalledDefault(t) == local[t].by = "default" /\ calls[t].executor > 0

\* C16: a task whose executor call went to the default executor made exactly
\* one executor call and has one step; the call returns an error observation
\* with didTerminate, after which run emits step-updated and ends the task:
\* the task is terminal from then on and never plans again.
C16_DefaultExecutorStops ==
    \A t \in DOMAIN tasks :
        CalledDefault(t) =>
            /\ calls[t].executor = 1
            /\ Len(tasks[t].steps) = 1
            /\ pc[t] \in {"step-executing", "awaitExec", "step-updated",
                          "task-completed", "returned", "settled"}
            /\ pc[t] \in {"step-updated", "task-completed", "returned", "settled"} =>
                  /\ Get(local[t].execution).observation.result = "error"
                  /\ Get(local[t].execution).didTerminate
            /\ pc[t] \in {"task-completed", "returned", "settled"} => Terminal(t)

\* C16 witness: a task ran with no executor registered and settled terminal
\* after one step and one executor call
C16_Witness ==
    \E t \in DOMAIN tasks :
        /\ CalledDefault(t)
        /\ executor = "default"
        /\ pc[t] = "settled"
        /\ Terminal(t)
        /\ Len(tasks[t].steps) = 1
        /\ calls[t].executor = 1

InQueue(t) == \E i \in DOMAIN queue : queue[i] = t

\* a task of the store past createTask's emit is waiting, active or settled
Accounted(t) ==
    \/ pc[t] = "creating"
    \/ InQueue(t) /\ t \notin activeTaskIds /\ pc[t] = "queued"
    \/ ~InQueue(t) /\ t \in activeTaskIds /\ pc[t] \notin {"queued", "settled"}
    \/ ~InQueue(t) /\ t \notin activeTaskIds /\ pc[t] = "settled"

\* C18: when the promise of run is rejected, the catch of runTask leaves the
\* task failed with lastError the message of the error and task-failed
\* emitted with it; the catch-callback of drainQueue then removes the id
\* from activeTaskIds and drains the queue, so that the head of a non-empty
\* queue starts in the same step; every task stays waiting, active or
\* settled.
C18_RunRejected ==
    [][\A t \in DOMAIN tasks :
          /\ (pc[t] = "threw" /\ pc'[t] = "rethrown") =>
                /\ tasks'[t].status = "failed"
                /\ tasks'[t].lastError = Some(ListenerMessage)
                /\ LastEvent(t)' = Event("task-failed", ListenerMessage)
                /\ t \in activeTaskIds'
          /\ (pc[t] = "rethrown" /\ pc'[t] = "settled") =>
                /\ tasks'[t].status = "failed"
                /\ tasks'[t].lastError = Some(ListenerMessage)
                /\ t \notin activeTaskIds'
                /\ queue # <<>> =>
                      /\ queue' = Tail(queue)
                      /\ Head(queue) \in activeTaskIds'
                      /\ tasks'[Head(queue)].status = "running"
                /\ \A u \in DOMAIN tasks : Accounted(u)'
      ]_vars

\* C18 witness: the run of a task was rejected and the task settled failed,
\* and with one slot the next task is running while a third one waits
C18_Witness ==
    \E t, u, w \in DOMAIN tasks :
        /\ config.maxParallelTasks = 1
        /\ caller[t] = "rejected"
        /\ pc[t] = "settled"
        /\ tasks[t].status = "failed"
        /\ activeTaskIds = {u}
        /\ tasks[u].status = "running"
        /\ InQueue(w)

\* C19: no error leaves runTask: the promise of runTask is never rejected,
\* so the catch-callback of drainQueue never runs and the promise createTask
\* returned is never rejected.
C19_NoErrorEscapes ==
    \A t \in DOMAIN tasks :
        /\ pc[t] # "rethrown"
        /\ caller[t] # "rejected"

\* C19 witness: the error of a listener left runTask and createTask was
\* rejected with it, the task being failed
C19_Witness ==
    \E t \in DOMAIN tasks :
        /\ caller[t] = "rejected"
        /\ tasks[t].status = "failed"
        /\ tasks[t].lastError = Some(ListenerMessage)

\* C20: createTask stores no task for a goal that is empty or white space
\* only, and none while the model client is not ready: every task of the
\* store has a goal with text and exists only under a ready client; a call
\* that throws leaves the store, the queue, activeTaskIds and the events
\* as they were.
C20_CreateTaskRejects ==
    [][/\ \A t \in DOMAIN tasks' :
             /\ tasks'[t].goal # <<>>
             /\ \E i \in DOMAIN tasks'[t].goal :
                    tasks'[t].goal[i] \notin WhiteSpace
             /\ modelReady'
       /\ rejected' # rejected =>
             /\ tasks' = tasks
             /\ queue' = queue
             /\ activeTaskIds' = activeTaskIds
             /\ events' = events
             /\ updated' = updated
      ]_vars

\* C20 witness: with a ready client one call was accepted and two calls,
\* one of them made with a queue that is not empty, threw on the goal
C20_Witness ==
    /\ modelReady
    /\ rejected = 2
    /\ Len(tasks) = 1
    /\ pc[1] \notin {"none", "creating", "settled"}

\* C20 witness of the second check: the client is not ready and calls threw
C20_WitnessNotReady ==
    /\ ~modelReady
    /\ rejected > 0
    /\ tasks = <<>>

\* the planner no longer answers: the replies of the behaviour are used up
\* while a call of the planner is pending
PlannerSilent ==
    /\ replies = MaxReplies
    /\ \E u \in DOMAIN tasks : pc[u] = "awaitPlan"

\* task t left the queue, ran and ended within the step budget
Ended(t) ==
    /\ t \in DOMAIN tasks
    /\ Terminal(t)
    /\ ~InQueue(t)
    /\ Emitted(t, "task-started")
    /\ calls[t].planner <= config.maxSteps
    /\ Len(tasks[t].steps) <= config.maxSteps

\* C17: as long as the calls of the planner and of the executor return or
\* throw, every task createTask stored leaves the queue, starts and becomes
\* succeeded or failed after at most maxSteps planner calls and steps.
C17_EveryTaskEnds ==
    \A t \in TaskIds :
        (t \in DOMAIN tasks) ~> (Ended(t) \/ PlannerSilent)

\* C17 witness: with one slot, a task that waited in the queue behind
\* another one ended, while the planner could still answer
C17_Witness ==
    \E t, u \in DOMAIN tasks :
        /\ config.maxParallelTasks = 1
        /\ t < u
        /\ Ended(t) /\ pc[t] = "settled"
        /\ Ended(u) /\ pc[u] = "settled"
        /\ calls[u].planner > 0
        /\ ~PlannerSilent

\* ------------------------------------------------- claims on subscribers
\* the subscribers that connected
Connected == { s \in Subscribers : hub.state[s] # "none" }

\* the events the step emits, as the messages the listeners forward
Emission ==
    { Message(events'[t][Len(events'[t])].type,
              [taskId |-> t, data |-> events'[t][Len(events'[t])].payload]) :
        t \in { u \in TaskIds : Len(events'[u]) = Len(events[u]) + 1 } }

\* C21: the first message a subscriber (a client of /events or a
\* webContents) receives is a snapshot of all tasks and all tools, sent in
\* the step that connects it; no other message is a snapshot, and every
\* later message is the event emitted in the step that delivers it, so
\* live events arrive after the snapshot and in emission order.
C21_SnapshotThenEvents ==
    [][\A s \in Subscribers :
          /\ (hub.state[s] = "none" /\ hub'.state[s] # "none") =>
                /\ Len(hub'.inbox[s]) = 1
                /\ hub'.inbox[s][1].type = "snapshot"
                /\ Range(hub'.inbox[s][1].payload.tasks) = Range(tasks)
                /\ Len(hub'.inbox[s][1].payload.tasks) = Len(tasks)
                /\ hub'.inbox[s][1].payload.tools = getTools
          /\ hub.state[s] = "none" => hub.inbox[s] = <<>>
          /\ hub.state[s] # "none" =>
                \/ hub'.inbox[s] = hub.inbox[s]
                \/ \E m \in Emission :
                      /\ m.type # "snapshot"
                      /\ hub'.inbox[s] = Append(hub.inbox[s], m)
      ]_vars

\* C21 witness: a client of /events and a webContents connected while a
\* task existed and each received live events after its snapshot
C21_Witness ==
    \E s, r \in Connected :
        /\ s \in Range(hub.clients) /\ r \in Range(hub.subscribers)
        /\ \A x \in {s, r} :
              /\ Len(hub.inbox[x]) >= 3
              /\ hub.inbox[x][1].type = "snapshot"
              /\ hub.inbox[x][1].payload.tasks # <<>>

\* a subscriber a send reaches: an open socket among the clients, or a
\* webContents of the set that is neither destroyed nor disposed
Live(s) ==
    \/ s \in Range(hub.clients) /\ hub.state[s] = "open"
    \/ s \in Range(hub.subscribers) /\ hub.state[s] = "live"

\* C22: once a subscriber has its snapshot, every event the runtime emits
\* is sent to it as {type, payload} while it is live: step-executing and
\* task-updated as well as task-created, task-started, planning-started,
\* planning-finished, step-created, step-updated, task-completed,
\* task-failed and task-error (no send throwing).
C22_EveryEventForwarded ==
    [][~sendThrows(hub) =>
          \A s \in Subscribers : Live(s) =>
              /\ \A m \in Emission : hub'.inbox[s] = Append(hub.inbox[s], m)
              /\ updated' # updated =>
                    /\ Len(hub'.inbox[s]) = Len(hub.inbox[s]) + 1
                    /\ hub'.inbox[s][Len(hub'.inbox[s])].type = "task-updated"
      ]_vars

\* C22, the part that holds: the nine events bindRuntimeEvents and
\* forwardRuntimeEvents name reach every live subscriber
C22_BoundEventsForwarded ==
    [][~sendThrows(hub) =>
          \A s \in Subscribers : Live(s) =>
              \A m \in Emission :
                  m.type \in ServerEvents \cap BridgeEvents =>
                      hub'.inbox[s] = Append(hub.inbox[s], m)
      ]_vars

\* C22 witness: a subscriber connected before any task existed, is live,
\* and has no step-executing although one was emitted
C22_Witness ==
    \E s \in Subscribers : \E t \in DOMAIN tasks :
        /\ Live(s)
        /\ hub.inbox[s][1].payload.tasks = <<>>
        /\ \E i \in DOMAIN events[t] : events[t][i].type = "step-executing"
        /\ \A i \in DOMAIN hub.inbox[s] : hub.inbox[s][i].type # "step-executing"
        /\ \E i \in DOMAIN hub.inbox[s] : hub.inbox[s][i].type = "step-updated"

\* C23: delivery is best-effort per subscriber: when the send to one
\* subscriber fails, every other live subscriber still receives the event.
C23_BestEffort ==
    [][\A s \in Subscribers : Live(s) =>
          \A m \in Emission :
              m.type \in ServerEvents \cap BridgeEvents =>
                  hub'.inbox[s] = Append(hub.inbox[s], m)
      ]_vars

\* C23, second half: a failing send does not alter the orchestration of
\* the emitting task: no task is sent through the catch block of run with
\* the error of a send.
C23_OrchestrationUnaltered ==
    \A t \in DOMAIN tasks :
        (\E i \in DOMAIN events[t] : events[t][i].type = "task-error") =>
            tasks[t].lastError # Some(ListenerMessage)

\* C23 witness: of two webContents the one that subscribed first has its
\* frame disposed; planning-finished, emitted since then, did not reach
\* the second one, and the task ended failed with the error of the send
C23_Witness ==
    \E s, r \in Subscribers : \E t \in DOMAIN tasks :
        /\ hub.subscribers = <<s, r>>
        /\ hub.state[s] = "broken" /\ hub.state[r] = "live"
        /\ \E i \in DOMAIN events[t] : events[t][i].type = "planning-finished"
        /\ \A i \in DOMAIN hub.inbox[r] :
              hub.inbox[r][i].type # "planning-finished"
        /\ tasks[t].status = "failed"
        /\ tasks[t].lastError = Some(ListenerMessage)

\* a subscriber that disconnected: its webContents is destroyed, or its
\* socket is no longer open
Disconnected(s) == hub.state[s] \in {"destroyed", "closing", "closed"}

\* C24 as amended: a subscriber that disconnected stays disconnected and
\* receives no event emitted afterwards; a destroyed webContents is never in
\* `subscribers` and a closed socket never among the clients (a socket that
\* is closing is still among them, and broadcast passes over it).
C24_DisconnectedGetsNothing ==
    [][\A s \in Subscribers :
          /\ Disconnected(s) =>
                /\ hub'.inbox[s] = hub.inbox[s]
                /\ hub'.state[s] \in {"destroyed", "closing", "closed"}
          /\ hub'.state[s] = "destroyed" => s \notin Range(hub'.subscribers)
          /\ hub'.state[s] = "closed" => s \notin Range(hub'.clients)
      ]_vars

\* C24 as stated: no set of subscribers retains a disconnected subscriber
C24_NeverRetained ==
    \A s \in Subscribers :
        Disconnected(s) => s \notin Range(hub.clients) \cup Range(hub.subscribers)

\* C24 witness: a webContents and a socket connected before any task
\* existed and disconnected; the events emitted since reached neither
C24_Witness ==
    \E s, r \in Subscribers : \E t \in DOMAIN tasks :
        /\ hub.state[s] = "destroyed" /\ hub.state[r] \in {"closing", "closed"}
        /\ Len(hub.inbox[s]) = 1 /\ Len(hub.inbox[r]) = 1
        /\ Len(events[t]) >= 3

\* ---------------------------------------------------- claims on the events
\* the types of the events of task t, in the order of emission
Types(t) == [i \in DOMAIN events[t] |-> events[t][i].type]

\* the events that may follow an event of one task
Follows(type) ==
    CASE type = "task-created" -> {"task-started"}
      [] type = "task-started" -> {"planning-started", "task-failed"}
      [] type = "planning-started" -> {"planning-finished", "task-error"}
      [] type = "planning-finished" ->
            {"step-created", "task-completed", "task-failed", "task-error"}
      [] type = "step-created" -> {"step-executing"}
      [] type = "step-executing" -> {"step-updated", "task-error"}
      [] type = "step-updated" ->
            {"planning-started", "task-completed", "task-failed"}
      [] type = "task-error" -> {"task-failed"}
      [] OTHER -> {}

OneActionThenFinish ==
    <<"task-created", "task-started", "planning-started",
      "planning-finished", "step-created", "step-executing", "step-updated",
      "planning-started", "planning-finished", "task-completed">>

\* C25: the events of one task follow the prescribed sequence whatever
\* other tasks do: task-created, task-started, then per iteration
\* planning-started, planning-finished and, when a step is created,
\* step-created, step-executing, step-updated, up to the terminal event
\* (task-error coming only straight before task-failed); a task that ended
\* succeeded after one executed action and a finish of the planner emitted
\* exactly the ten events of OneActionThenFinish.
C25_EventOrder ==
    \A t \in DOMAIN tasks :
        /\ events[t] # <<>>
        /\ Types(t)[1] = "task-created"
        /\ \A i \in 1..(Len(events[t]) - 1) :
              Types(t)[i + 1] \in Follows(Types(t)[i])
        /\ (/\ pc[t] = "settled"
            /\ tasks[t].status = "succeeded"
            /\ Len(tasks[t].steps) = 1
            /\ calls[t].planner = 2) => Types(t) = OneActionThenFinish

\* C25 witness: a task emitted the ten events while another task was
\* running
C25_Witness ==
    \E t, u \in DOMAIN tasks :
        /\ t # u
        /\ Types(t) = OneActionThenFinish
        /\ pc[t] = "settled"
        /\ Len(events[u]) >= 3
        /\ events[u][1].type = "task-created"

\* the events of task t of the given type that carry step k
StepEvents(t, type, k) ==
    { i \in DOMAIN events[t] :
        events[t][i].type = type /\ events[t][i].payload.id = k }

\* C26, the events of run and runTask: a task that left pending has
\* exactly one task-started, every step exactly one step-created and at
\* most one step-updated, a succeeded task exactly one task-completed and no
\* task-failed, a failed task exactly one task-failed and no
\* task-completed, the terminal event being the last event of run for the
\* task, and a task that has not ended no terminal event.
C26_StatusEventsOnce ==
    \A t \in DOMAIN tasks :
        /\ CountEvents(t, "task-started") =
              (IF tasks[t].status = "pending" THEN 0 ELSE 1)
        /\ \A k \in DOMAIN tasks[t].steps :
              /\ Cardinality(StepEvents(t, "step-created",
                                        tasks[t].steps[k].id)) = 1
              /\ Cardinality(StepEvents(t, "step-updated",
                                        tasks[t].steps[k].id)) =
                    (IF tasks[t].steps[k].status = "running" THEN 0 ELSE 1)
        /\ CountEvents(t, "task-completed") =
              (IF tasks[t].status = "succeeded" THEN 1 ELSE 0)
        /\ CountEvents(t, "task-failed") =
              (IF tasks[t].status = "failed" THEN 1 ELSE 0)
        /\ Terminal(t) =>
              LastEvent(t).type \in {"task-completed", "task-failed"}

\* C26: every status change emits its event exactly once (one task-started
\* per task, one step-created and at most one step-updated per step, one
\* terminal event per ended task, task-completed if succeeded, task-failed
\* if failed, never both), and after the terminal event no further event
\* for that task is emitted.
C26_ExactlyOnceThenSilent ==
    [][/\ C26_StatusEventsOnce'
       /\ \A t \in DOMAIN tasks :
             Terminal(t) =>
                 /\ events'[t] = events[t]
                 /\ updated'[t] = updated[t]
      ]_vars

\* ------------------------------------------------------------- AgentPanel
\* the steps with the step of the same id replaced
replaceStep(steps, step) ==
    [i \in DOMAIN steps |-> IF steps[i].id = step.id THEN step ELSE steps[i]]

\* handleEvent: the tasks the panel holds (by id) after the message m;
\* updatedAt, which the panel sets from its own clock, is left out
handleEvent(view, m) ==
    IF m.type = "snapshot"
    THEN LET list == m.payload.tasks
         IN  [id \in { list[i].id : i \in DOMAIN list } |->
                 list[CHOOSE i \in DOMAIN list :
                         /\ list[i].id = id
                         /\ \A j \in DOMAIN list : list[j].id = id => j <= i]]
    ELSE LET taskId == m.payload.taskId
             data == m.payload.data
         IN  IF m.type = "task-created"
             THEN [id \in DOMAIN view \cup {data.id} |->
                      IF id = data.id THEN data ELSE view[id]]
             ELSE IF taskId \notin DOMAIN view THEN view
             ELSE CASE m.type = "task-started" ->
                          [view EXCEPT ![taskId].status = "running"]
                    [] m.type = "step-created" ->
                          [view EXCEPT ![taskId].steps = Append(@, data)]
                    [] m.type = "step-updated" ->
                          [view EXCEPT ![taskId].steps = replaceStep(@, data)]
                    [] m.type = "task-completed" ->
                          [view EXCEPT ![taskId].status = "succeeded",
                                       ![taskId].summary = Some(data)]
                    [] m.type = "task-failed" ->
                          [view EXCEPT ![taskId].status = "failed",
                                       ![taskId].lastError = Some(data)]
                    [] OTHER -> view

\* the tasks of a panel that received the messages of inbox, in order
RECURSIVE replay(_, _)
replay(view, inbox) ==
    IF inbox = <<>> THEN view
    ELSE replay(handleEvent(view, Head(inbox)), Tail(inbox))

\* the panel of subscriber s
Panel(s) == replay(<<>>, hub.inbox[s])

\* how often step k of task t was surfaced to s: in the snapshot, and by
\* step-created messages
Surfaced(s, t, k) ==
    LET inbox == hub.inbox[s]
        list == inbox[1].payload.tasks
    IN  Cardinality({ i \in DOMAIN list :
                        /\ list[i].id = t
                        /\ \E j \in DOMAIN list[i].steps :
                              list[i].steps[j].id = k })
        + Cardinality({ i \in DOMAIN inbox :
                          /\ inbox[i].type = "step-created"
                          /\ inbox[i].payload.taskId = t
                          /\ inbox[i].payload.data.id = k })

\* the panel of s agrees with the store: every step of every task was
\* surfaced exactly once, and the replayed messages give the statuses and
\* the step lists of the store
Coherent(s) ==
    /\ DOMAIN Panel(s) = DOMAIN tasks
    /\ \A t \in DOMAIN tasks :
          /\ Panel(s)[t].status = tasks[t].status
          /\ Panel(s)[t].steps = tasks[t].steps
          /\ \A k \in DOMAIN tasks[t].steps :
                Surfaced(s, t, tasks[t].steps[k].id) = 1

\* C27: snapshot coherence: for a subscriber that connected at any point
\* and is still connected, every step of every task was surfaced exactly
\* once, in the snapshot or by one later step-created, and the live events
\* applied to the snapshot give the task statuses and step lists of the
\* store.
C27_SnapshotCoherence ==
    \A s \in Subscribers : Live(s) => Coherent(s)

\* C27, the subscribers no throwing send stands before: the clients of
\* /events, which the server's listeners serve first, and the webContents
\* that subscribed before every other webContents
C27_CoherentBehindNone ==
    \A s \in Subscribers :
        (/\ Live(s)
         /\ \/ hub.state[s] = "open"
            \/ \A r \in Subscribers :
                  r < s => hub.state[r] \in {"open", "closing", "closed"})
        => Coherent(s)

\* C27 witness: a webContents subscribed while a step was executing, is
\* live behind no other webContents, and its panel shows the ended task
\* with the step of the snapshot and a second step
C27_Witness ==
    \E s \in Subscribers : \E t \in DOMAIN tasks :
        /\ hub.state[s] = "live"
        /\ hub.subscribers = <<s>>
        /\ hub.inbox[s][1].payload.tasks # <<>>
        /\ Len(hub.inbox[s][1].payload.tasks[1].steps) = 1
        /\ hub.inbox[s][1].payload.tasks[1].steps[1].status = "running"
        /\ Len(Panel(s)[t].steps) = 2
        /\ Panel(s)[t].status \in {"succeeded", "failed"}
        /\ Coherent(s)

\* ------------------------------------------------------------ AgentServer
\* A url is a sequence of atoms; "/", "?" and ":" are atoms of their own.
\* s.split(sep)
RECURSIVE split(_, _)
split(s, sep) ==
    IF \A i \in DOMAIN s : s[i] # sep THEN <<s>>
    ELSE LET i == CHOOSE k \in DOMAIN s :
                     s[k] = sep /\ \A j \in 1..(k - 1) : s[j] # sep
         IN  <<SubSeq(s, 1, i - 1)>> \o split(SubSeq(s, i + 1, Len(s)), sep)

\* parts.filter(Boolean)
RECURSIVE filterBoolean(_)
filterBoolean(parts) ==
    IF parts = <<>> THEN <<>>
    ELSE (IF Head(parts) = <<>> THEN <<>> ELSE <<Head(parts)>>)
           \o filterBoolean(Tail(parts))

\* normalisePath: the query and one trailing slash are cut off
normalisePath(path) ==
    LET url == split(path, "?")[1]
    IN  IF url = <<"/">> THEN url
        ELSE IF url # <<>> /\ url[Len(url)] = "/"
        THEN SubSeq(url, 1, Len(url) - 1)
        ELSE url

\* extractParam: parts[index], the index counted from 0
extractParam(path, index) ==
    LET parts == filterBoolean(split(normalisePath(path), "/"))
    IN  IF index + 1 \in DOMAIN parts THEN Some(parts[index + 1]) ELSE None

Route(method, path) == [method |-> method, path |-> path]

\* registerRoutes: the keys of `routes` in the order of insertion
routes ==
    << Route("GET", <<"/", "health">>),
       Route("GET", <<"/", "tools">>),
       Route("GET", <<"/", "tasks">>),
       Route("GET", <<"/", "tasks", "/", ":", "id">>),
       Route("POST", <<"/", "tasks">>) >>

\* key.includes("/:")
isDynamic(route) ==
    \E i \in 1..(Len(route.path) - 1) :
        route.path[i] = "/" /\ route.path[i + 1] = ":"

\* the body of the loop of matchDynamicRoute: the route matches the request
matches(route, method, path) ==
    LET pathParts == filterBoolean(split(path, "/"))
        registeredParts == filterBoolean(split(route.path, "/"))
    IN  /\ isDynamic(route)
        /\ route.method = method
        /\ Len(pathParts) = Len(registeredParts)
        /\ \A i \in DOMAIN pathParts :
              \/ startsWith(registeredParts[i], <<":">>)
              \/ registeredParts[i] = pathParts[i]

\* matchDynamicRoute: the first route of `routes` that matches, if any
matchDynamicRoute(method, url) ==
    LET path == normalisePath(url)
        hits == { i \in DOMAIN routes : matches(routes[i], method, path) }
    IN  IF hits = {} THEN None
        ELSE Some(routes[CHOOSE i \in hits : \A j \in hits : i <= j])

\* routes.get(key) ?? matchDynamicRoute(req)
findHandler(method, url) ==
    LET exact == { i \in DOMAIN routes :
                     routes[i] = Route(method, normalisePath(url)) }
    IN  IF exact # {} THEN Some(routes[CHOOSE i \in exact : TRUE])
        ELSE matchDynamicRoute(method, url)

\* this.json(res, payload, status)
json(payload, status) == [status |-> status, body |-> payload]

\* runtime.getTask(id): the task stored under the id of that text
getTask(id) ==
    IF \E t \in DOMAIN tasks : <<ToString(t)>> = id
    THEN Some(tasks[CHOOSE t \in DOMAIN tasks : <<ToString(t)>> = id])
    ELSE None

\* the handler of GET /tasks/:id
getTaskHandler(url) ==
    LET id == extractParam(url, 2)
        task == IF id # None THEN getTask(Get(id)) ELSE None
    IN  IF task = None
        THEN json([error |-> "Task not found."], 404)
        ELSE json([task |-> Get(task)], 200)

\* handleRequest for the GET routes (POST /tasks is createTask)
handleRequest(method, url) ==
    LET handler == findHandler(method, url)
    IN  IF handler = None THEN json([error |-> "Not found."], 404)
        ELSE CASE Get(handler) = routes[1] -> json([status |-> "ok"], 200)
               [] Get(handler) = routes[2] -> json([tools |-> getTools], 200)
               [] Get(handler) = routes[3] -> json([tasks |-> listTasks], 200)
               [] Get(handler) = routes[4] -> getTaskHandler(url)

\* the url of the task with the id of that text
TaskUrl(id) == <<"/", "tasks", "/", id>>

\* the urls clients ask for: of tasks that may exist and of one that does
\* not, plain, with a trailing slash or a query, and of other routes
Urls ==
    UNION { { TaskUrl(id), TaskUrl(id) \o <<"/">>,
              TaskUrl(id) \o <<"?", "full">>,
              TaskUrl(id) \o <<"/", "steps">> } :
            id \in { ToString(t) : t \in TaskIds } \cup {"none"} }
      \cup { <<"/", "tasks">>, <<"/", "health">>, <<"/", "tools">>, <<"/">> }

\* a client sends a request without a body
Request ==
    /\ Idle
    /\ apiCalls < MaxCalls
    /\ apiCalls' = apiCalls + 1
    /\ \E method \in {"GET", "DELETE"}, url \in Urls :
          probe' = [call |-> "request", method |-> method, url |-> url,
                    response |-> handleRequest(method, url)]
    /\ UNCHANGED <<config, hub, host, modelReady, executor, rejected, tasks,
                   queue, activeTaskIds, memory, pc, local, stack, events,
                   updated, caller, calls, replies>>

\* the runtime behind the http server
NextHttp == Next \/ Request

SpecHttp == Init /\ [][NextHttp]_vars

\* a request for the task stored under t: GET /tasks/<id of t>, with or
\* without a trailing slash or a query
AsksFor(p, t) ==
    /\ p.call = "request"
    /\ p.method = "GET"
    /\ p.url \in { TaskUrl(ToString(t)), TaskUrl(ToString(t)) \o <<"/">>,
                   TaskUrl(ToString(t)) \o <<"?", "full">> }

\* C28: GET /tasks/:id answers {task} for the id of an existing task, and
\* 404 {error: "Task not found."} only when no task with that id exists.
C28_GetTask ==
    [][probe' # probe =>
          \A t \in TaskIds :
              (AsksFor(probe', t) /\ t \in DOMAIN tasks) =>
                  probe'.response = json([task |-> tasks[t]], 200)
      ]_vars

\* C28, what the route does: every GET of /tasks/<id> answers 404
\* {error: "Task not found."}, whether a task with that id exists or not
C28_AlwaysNotFound ==
    \A t \in TaskIds :
        AsksFor(probe, t) =>
            probe.response = json([error |-> "Task not found."], 404)

\* C28 witness: the task exists, has run, and GET /tasks/<its id> answered
\* 404
C28_Witness ==
    \E t \in DOMAIN tasks :
        /\ probe.call = "request"
        /\ probe.method = "GET"
        /\ probe.url = TaskUrl(ToString(t))
        /\ Len(events[t]) >= 3
        /\ probe.response.status = 404

\* ----------------------------------------------- validateAction by itself
\* the keys of the schema of a registered tool, and the required ones
SchemaKeys(type) ==
    { TOOL_DEFINITIONS[type][i].key : i \in DOMAIN TOOL_DEFINITIONS[type] }

RequiredKeys(type) ==
    { TOOL_DEFINITIONS[type][i].key :
        i \in { j \in DOMAIN TOOL_DEFINITIONS[type] :
                  TOOL_DEFINITIONS[type][j].required } }

\* the types an action of the planner may carry: the tools, a name nobody
\* registered, and names every object inherits
ProbeTypes == DOMAIN TOOL_DEFINITIONS \cup {"fly"} \cup ObjectPrototypeKeys

\* the keys the params of the actions are built from: the required ones,
\* some optional ones, and one no schema has
ProbeKeys(type) ==
    IF type \in DOMAIN TOOL_DEFINITIONS
    THEN RequiredKeys(type)
           \cup (SchemaKeys(type) \cap {"ms", "until", "tabId"})
           \cup {"extra"}
    ELSE {"extra"}

\* the actions: no params object, or one with some of the keys, each null
\* or a value
ProbeActions ==
    UNION { { Action(type, None) }
              \cup UNION { { Action(type, Some(params)) :
                               params \in [keys -> {None, <<"v">>}] } :
                           keys \in SUBSET ProbeKeys(type) } :
            type \in ProbeTypes }

\* validateAction is called with an action
Validate ==
    /\ probe = NoProbe
    /\ \E action \in ProbeActions :
          probe' = [call |-> "validateAction", action |-> action,
                    result |-> validateAction(action)]
    /\ UNCHANGED <<config, hub, host, modelReady, executor, rejected, tasks,
                   queue, activeTaskIds, memory, pc, local, stack, events,
                   updated, caller, calls, apiCalls, replies>>

NextValidate == Validate

SpecValidate == Init /\ [][NextValidate]_vars

\* the required parameters of a registered tool that are absent, null or
\* undefined in the params of the action
MissingRequired(action) ==
    { key \in RequiredKeys(action.type) :
        \/ action.params = None
        \/ key \notin DOMAIN Get(action.params)
        \/ Get(action.params)[key] = None }

\* what the claim says validateAction answers for the action
AsClaimed(action, result) ==
    /\ result.thrown = None
    /\ result.ok = FALSE <=>
          \/ action.type \notin DOMAIN TOOL_DEFINITIONS
          \/ MissingRequired(action) # {}
    /\ (/\ action.type \in DOMAIN TOOL_DEFINITIONS
        /\ MissingRequired(action) # {}) =>
          /\ Len(result.issues) = Cardinality(MissingRequired(action))
          /\ \A key \in MissingRequired(action) :
                \E i \in DOMAIN result.issues :
                    result.issues[i] = MissingIssue(key, action.type)

\* C29: validateAction returns ok = false if and only if the type of the
\* action is not a registered tool or a required parameter of the tool is
\* absent, null or undefined in action.params, and then the issues name
\* each missing parameter; extra parameters and optional ones never cause a
\* rejection (a wait with neither ms nor until is accepted).
C29_ValidateAction ==
    probe.call = "validateAction" => AsClaimed(probe.action, probe.result)

\* C29 for the actions whose type is a tool or a name no object has, and
\* that carry a params object: there validateAction answers as claimed
C29_WithParamsObject ==
    (/\ probe.call = "validateAction"
     /\ ~InheritedMember(probe.action.type)
     /\ (probe.action.params # None
           \/ probe.action.type \notin DOMAIN TOOL_DEFINITIONS))
    => AsClaimed(probe.action, probe.result)

\* C29 witness: a wait without a params object, which has neither ms nor
\* until, was not accepted: validateAction threw
C29_Witness ==
    /\ probe.call = "validateAction"
    /\ probe.action = Action("wait", None)
    /\ probe.result.thrown # None

\* C29 witness of the second check: a wait with an empty params object,
\* which has neither ms nor until, is accepted
C29_WitnessAccepted ==
    /\ probe.call = "validateAction"
    /\ probe.action = Action("wait", Some(<<>>))
    /\ probe.result.ok

\* ---------------------------------------------------- AgentMemory by itself
\* the tasks whose memory is written and read, and the entries written
MemoryTasks == {1, 2}

MemoryContents == {"a", "b"}

\* the limits asked for: none kept, all kept, some kept, and the default
Limits == (-1..(MaxEntries + 1)) \cup {10}

\* memory.remember is called
Remember ==
    /\ probe = NoProbe
    /\ \E t \in MemoryTasks, content \in MemoryContents :
          /\ Len(memory[t]) < MaxEntries
          /\ memory' = remember(memory, t, Entry("thought", <<content>>, None))
    /\ UNCHANGED <<config, probe, hub, host, modelReady, executor, rejected,
                   tasks, queue, activeTaskIds, pc, local, stack, events,
                   updated, caller, calls, apiCalls, replies>>

\* a call of getRecent: what it returns and the memory it leaves
getRecentCall(mem, taskId, limit) ==
    [result |-> getRecent(mem, taskId, limit), memory |-> mem]

\* memory.getRecent is called twice in a row with the same arguments
GetRecent ==
    /\ probe = NoProbe
    /\ \E t \in MemoryTasks, limit \in Limits :
          LET first == getRecentCall(memory, t, limit)
              second == getRecentCall(first.memory, t, limit)
          IN  /\ probe' = [call |-> "getRecent", taskId |-> t,
                           limit |-> limit, list |-> memory[t],
                           result |-> first.result, again |-> second.result]
              /\ memory' = second.memory
    /\ UNCHANGED <<config, hub, host, modelReady, executor, rejected, tasks,
                   queue, activeTaskIds, pc, local, stack, events, updated,
                   caller, calls, apiCalls, replies>>

NextMemory == Remember \/ GetRecent

SpecMemory == Init /\ [][NextMemory]_vars

Min(a, b) == IF a <= b THEN a ELSE b

\* C30: for a task with n remembered entries getRecent(taskId, k) returns
\* the last min(k, n) entries in insertion order when k > 0 and all n
\* entries when k <= 0; it leaves the memory as it was, and a second call
\* with no remember in between returns the same sequence.
C30_GetRecent ==
    probe.call = "getRecent" =>
        LET n == Len(probe.list)
            k == probe.limit
            size == IF k > 0 THEN Min(k, n) ELSE n
        IN  /\ Len(probe.result) = size
            /\ \A i \in 1..size : probe.result[i] = probe.list[n - size + i]
            /\ memory[probe.taskId] = probe.list
            /\ probe.again = probe.result

\* C30 witness: getRecent with 0 < k < n on a memory whose entries differ
\* returned the last k of them
C30_Witness ==
    /\ probe.call = "getRecent"
    /\ probe.limit = 2
    /\ Len(probe.list) = 3
    /\ probe.list[1] # probe.list[3]
    /\ probe.result = <<probe.list[2], probe.list[3]>>

\* --------------------------------------------------------- utils/json.ts
\* A text is a sequence of atoms: the punctuation of JSON, string literals,
\* number and keyword literals, white space, and words of prose.  A string
\* literal is written with ' for its quotes.
JsonStrings == {"'thought'", "'finish'", "''"}

JsonLiterals == {"1", "0", "null"}

Scalar(atom) == [kind |-> "scalar", atom |-> atom]
Object(members) == [kind |-> "object", members |-> members]
Array(items) == [kind |-> "array", items |-> items]

\* obj[key] = value: a key the object has keeps its place
put(members, key, value) ==
    IF \E i \in DOMAIN members : members[i].key = key
    THEN [i \in DOMAIN members |->
             IF members[i].key = key THEN [key |-> key, value |-> value]
             ELSE members[i]]
    ELSE Append(members, [key |-> key, value |-> value])

Parsed(value, rest) == [ok |-> TRUE, value |-> value, rest |-> rest]
SyntaxError == [ok |-> FALSE]

\* the grammar of JSON over the atoms: a value, the members of an object
\* after "{" or ",", the items of an array after "[" or ","
RECURSIVE parseValue(_), parseMembers(_, _), parseItems(_, _)
parseValue(toks) ==
    IF toks = <<>> THEN SyntaxError
    ELSE IF Head(toks) = "{"
    THEN IF Len(toks) >= 2 /\ toks[2] = "}"
         THEN Parsed(Object(<<>>), SubSeq(toks, 3, Len(toks)))
         ELSE parseMembers(Tail(toks), <<>>)
    ELSE IF Head(toks) = "["
    THEN IF Len(toks) >= 2 /\ toks[2] = "]"
         THEN Parsed(Array(<<>>), SubSeq(toks, 3, Len(toks)))
         ELSE parseItems(Tail(toks), <<>>)
    ELSE IF Head(toks) \in JsonStrings \cup JsonLiterals
    THEN Parsed(Scalar(Head(toks)), Tail(toks))
    ELSE SyntaxError

parseMembers(toks, members) ==
    IF Len(toks) < 3 \/ toks[1] \notin JsonStrings \/ toks[2] # ":"
    THEN SyntaxError
    ELSE LET v == parseValue(SubSeq(toks, 3, Len(toks)))
         IN  IF ~v.ok \/ v.rest = <<>> THEN SyntaxError
             ELSE IF Head(v.rest) = "}"
             THEN Parsed(Object(put(members, toks[1], v.value)), Tail(v.rest))
             ELSE IF Head(v.rest) = ","
             THEN parseMembers(Tail(v.rest), put(members, toks[1], v.value))
             ELSE SyntaxError

parseItems(toks, items) ==
    LET v == parseValue(toks)
    IN  IF ~v.ok \/ v.rest = <<>> THEN SyntaxError
        ELSE IF Head(v.rest) = "]"
        THEN Parsed(Array(Append(items, v.value)), Tail(v.rest))
        ELSE IF Head(v.rest) = ","
        THEN parseItems(Tail(v.rest), Append(items, v.value))
        ELSE SyntaxError

\* the atoms of a text that are not white space
RECURSIVE tokens(_)
tokens(text) ==
    IF text = <<>> THEN <<>>
    ELSE (IF Head(text) \in WhiteSpace THEN <<>> ELSE <<Head(text)>>)
           \o tokens(Tail(text))

\* tryParse: <<value>> when JSON.parse returns, <<>> (undefined) when it
\* throws
tryParse(payload) ==
    LET r == parseValue(tokens(payload))
    IN  IF r.ok /\ r.rest = <<>> THEN Some(r.value) ELSE None

\* s.indexOf(x), s.lastIndexOf(x): 0 when x is not in s, positions from 1
indexOf(s, x) ==
    IF \A i \in DOMAIN s : s[i] # x THEN 0
    ELSE CHOOSE i \in DOMAIN s : s[i] = x /\ \A j \in 1..(i - 1) : s[j] # x

lastIndexOfFirst(s, x) == indexOf(s, x)

lastIndexOf(s, x) ==
    IF \A i \in DOMAIN s : s[i] # x THEN 0
    ELSE CHOOSE i \in DOMAIN s :
             s[i] = x /\ \A j \in (i + 1)..Len(s) : s[j] # x

\* parseJsonFromText: the value parsed, null included
parseJsonFromText(text) ==
    IF text = <<>> THEN Scalar("null")
    ELSE LET trimmed == trim(text)
             direct == tryParse(trimmed)
             firstBrace == indexOf(trimmed, "{")
             lastBrace == lastIndexOf(trimmed, "}")
         IN  IF direct # None THEN Get(direct)
             ELSE IF firstBrace = 0 \/ lastBrace = 0 \/ lastBrace <= firstBrace
             THEN Scalar("null")
             ELSE LET embedded ==
                          tryParse(SubSeq(trimmed, firstBrace, lastBrace))
                  IN  IF embedded # None THEN Get(embedded)
                      ELSE Scalar("null")

\* !parsed
falsy(value) == value \in { Scalar("null"), Scalar("0"), Scalar("''") }

\* AgentModelClient.plan after generateText returned the text
planOfText(text) ==
    LET parsed == parseJsonFromText(text)
    IN  IF falsy(parsed) THEN Rejected(UnparsableMessage)
        ELSE Resolved(parsed)

\* the JSON objects a model answers with, other values, and broken ones
Bodies ==
    { <<"{", "}">>,
      <<"{", "'thought'", ":", "1", "}">>,
      <<"{", "'thought'", ":", " ", "''", ",", "\n",
        "'finish'", ":", "{", "'thought'", ":", "null", "}", "}">>,
      <<"{", "'thought'", ":", "1", ",", "'thought'", ":", "0", "}">>,
      <<"{", "'finish'", ":", "[", "1", ",", "{", "}", "]", "}">>,
      <<"{", "'thought'", ":", "}">>,
      <<"{", "'thought'", "1", "}">>,
      <<"'thought'", ":", "1">>,
      <<"null">>, <<"0">>, <<"1">>, <<"''">>,
      <<"sorry">>,
      <<>> }

\* what stands before and after: nothing, white space, prose, a code
\* fence (written ~~~), JSON punctuation, a brace
Before ==
    { <<>>, <<" ", "\n">>, <<"Sure", " ", "here", "\n">>,
      <<"~~~", "json", "\n">>, <<"[">>, <<"[", "1", ",">>, <<"{">> }

After ==
    { <<>>, <<"\n", " ">>, <<"\n", "done">>, <<"\n", "~~~">>, <<"]">>,
      <<"}">> }

\* parseJsonFromText and plan are applied to a text
ParseText ==
    /\ probe = NoProbe
    /\ \E before \in Before, body \in Bodies, after \in After :
          probe' = [call |-> "parseJsonFromText",
                    before |-> before, body |-> body, after |-> after,
                    text |-> before \o body \o after,
                    result |-> parseJsonFromText(before \o body \o after),
                    reply |-> planOfText(before \o body \o after)]
    /\ UNCHANGED <<config, hub, host, modelReady, executor, rejected, tasks,
                   queue, activeTaskIds, memory, pc, local, stack, events,
                   updated, caller, calls, apiCalls, replies>>

NextParse == ParseText

SpecParse == Init /\ [][NextParse]_vars

\* the text is a JSON object by itself
IsObjectText(text) ==
    /\ tryParse(text) # None
    /\ Get(tryParse(text)).kind = "object"

BraceFree(text) == \A i \in DOMAIN text : text[i] \notin {"{", "}"}

\* the direct parse of the text and the parse of the substring from its
\* first "{" to its last "}" both fail
BothParsesFail(text) ==
    LET trimmed == trim(text)
    IN  /\ tryParse(trimmed) = None
        /\ \/ indexOf(trimmed, "{") = 0
           \/ lastIndexOf(trimmed, "}") <= indexOf(trimmed, "{")
           \/ tryParse(SubSeq(trimmed, indexOf(trimmed, "{"),
                              lastIndexOf(trimmed, "}"))) = None

\* C31 as amended: a text that is a JSON object, surrounded by brace-free
\* chatter or a code fence that does not make the whole text valid JSON
\* (or by white space only), parses to the object the text alone parses
\* to; when the direct and the bracketed parse both fail, plan throws.
C31_ProseWrappers ==
    probe.call = "parseJsonFromText" =>
        /\ (/\ IsObjectText(probe.body)
            /\ BraceFree(probe.before) /\ BraceFree(probe.after)
            /\ \/ tryParse(trim(probe.text)) = None
               \/ tokens(probe.before) = <<>> /\ tokens(probe.after) = <<>>)
           => probe.result = Get(tryParse(probe.body))
        /\ BothParsesFail(probe.text) =>
              probe.reply = Rejected(UnparsableMessage)

\* C31 as stated: a JSON object surrounded by any brace-free chatter parses
\* to the same object; when both parses fail, plan throws.
C31_AnyBraceFreeChatter ==
    probe.call = "parseJsonFromText" =>
        /\ (/\ IsObjectText(probe.body)
            /\ BraceFree(probe.before) /\ BraceFree(probe.after))
           => probe.result = Get(tryParse(probe.body))
        /\ BothParsesFail(probe.text) =>
              probe.reply = Rejected(UnparsableMessage)

\* C31 witness: an object with an object inside, after prose and before
\* the end of a code fence, parsed to the object
C31_Witness ==
    /\ probe.call = "parseJsonFromText"
    /\ probe.before = <<"Sure", " ", "here", "\n">>
    /\ probe.after = <<"\n", "~~~">>
    /\ probe.result.kind = "object"
    /\ Len(probe.result.members) = 2
    /\ probe.result.members[2].value.kind = "object"
    /\ probe.reply = Resolved(probe.result)

\* C31, the task: a planner call that failed with the error of plan for an
\* unparsable text ends the task failed, with that error
C31_UnparsableFails ==
    \A t \in DOMAIN tasks :
        \A i \in DOMAIN events[t] :
            (PlannerFailedAt(t, i) /\ events[t][i].payload = UnparsableMessage)
            => /\ tasks[t].lastError = Some(UnparsableMessage)
               /\ pc[t] # "task-error" => tasks[t].status = "failed"

\* ------------------------------------------- main/AgentExecutor.ts: wait
\* JavaScript numbers: the finite ones met here are integers
Finite(n) == [is |-> "finite", n |-> n]

NaN == [is |-> "NaN", n |-> 0]

Infinity == [is |-> "Infinity", n |-> 0]

MinusInfinity == [is |-> "-Infinity", n |-> 0]

\* a <= b; false when either is NaN
LessOrEqual(a, b) ==
    /\ a.is # "NaN" /\ b.is # "NaN"
    /\ \/ a.is = "-Infinity"
       \/ b.is = "Infinity"
       \/ a.is = "finite" /\ b.is = "finite" /\ a.n <= b.n

\* a > b; false when either is NaN
Greater(a, b) == a.is # "NaN" /\ b.is # "NaN" /\ ~LessOrEqual(a, b)

\* Math.min and Math.max: NaN when an argument is NaN
MathMin(a, b) ==
    IF a.is = "NaN" \/ b.is = "NaN" THEN NaN
    ELSE IF LessOrEqual(a, b) THEN a ELSE b

MathMax(a, b) ==
    IF a.is = "NaN" \/ b.is = "NaN" THEN NaN
    ELSE IF LessOrEqual(a, b) THEN b ELSE a

\* the values a parameter of an action can have (params are unknown)
JsNumber(x) == [type |-> "number", number |-> x, string |-> <<>>]

JsString(s) == [type |-> "string", number |-> NaN, string |-> s]

Undefined == [type |-> "undefined", number |-> NaN, string |-> <<>>]

JsTrue == [type |-> "boolean", number |-> NaN, string |-> <<>>]

Digits == <<"0", "1", "2", "3", "4", "5", "6", "7", "8", "9">>

isDigit(c) == \E d \in DOMAIN Digits : Digits[d] = c

digit(c) == (CHOOSE d \in DOMAIN Digits : Digits[d] = c) - 1

\* the value of a sequence of decimal digits
RECURSIVE decimal(_)
decimal(s) ==
    IF s = <<>> THEN 0
    ELSE 10 * decimal(SubSeq(s, 1, Len(s) - 1)) + digit(s[Len(s)])

\* Number(string): white space around is dropped, the empty string is 0,
\* a signed decimal or Infinity is its value, anything else is NaN
Number(s) ==
    LET t == trim(s)
        signed == t # <<>> /\ t[1] \in {"-", "+"}
        body == IF signed THEN Tail(t) ELSE t
        minus == signed /\ t[1] = "-"
    IN  IF t = <<>> THEN Finite(0)
        ELSE IF body = <<"Infinity">>
             THEN IF minus THEN MinusInfinity ELSE Infinity
        ELSE IF body # <<>> /\ \A i \in DOMAIN body : isDigit(body[i])
             THEN Finite(IF minus THEN 0 - decimal(body) ELSE decimal(body))
        ELSE NaN

\* agentSafetyConfig.maxWaitMs, in the unit of time of the model, which is
\* the interval between two polls of the page
maxWaitMs == 3

SELECTOR_TIMEOUT == Finite(maxWaitMs)

\* the times since the start at which the page polls
PollTimes == 0..(maxWaitMs + 1)

\* a number in a condition: false for 0 and NaN
truthyNumber(x) == ~(x.is = "NaN" \/ x = Finite(0))

\* what a call of handleWait did: how it ended ("never" when its promise
\* never settles), the delay it slept, and the timeout the page polled with
Waited(outcome, slept, timeout) ==
    [outcome |-> outcome, slept |-> slept, timeout |-> timeout]

\* the script of waitForSelector in the page: resolves found when the node
\* is there at a poll, not found at the first poll where the time since the
\* start is greater than the timeout, and polls again otherwise
pollResolves(timeout, appears) ==
    IF appears THEN "found"
    ELSE IF \E elapsed \in PollTimes : Greater(Finite(elapsed), timeout)
         THEN "timeout"
         ELSE "never"

waitForSelector(timeout, appears) ==
    LET safeTimeout == MathMin(timeout, Finite(maxWaitMs))
    IN  [found |-> pollResolves(safeTimeout, appears), timeout |-> safeTimeout]

handleWait(tab, params, appears) ==
    LET ms == IF params.ms.type = "number" THEN Some(params.ms.number)
              ELSE IF params.ms.type = "string" THEN Some(Number(params.ms.string))
              ELSE None
        until == IF params.until.type = "string" /\ trim(params.until.string) # <<>>
                 THEN Some(params.until.string)
                 ELSE None
        timeout == IF params.timeoutMs.type = "number" THEN params.timeoutMs.number
                   ELSE IF params.timeoutMs.type = "string"
                        THEN Number(params.timeoutMs.string)
                        ELSE SELECTOR_TIMEOUT
        effectiveTimeout == MathMin(timeout, Finite(maxWaitMs))
        hasMs == ms # None /\ truthyNumber(Get(ms))
    IN  IF ~tab THEN Waited("error", None, None)
        ELSE IF ~hasMs /\ until = None THEN Waited("threw", None, None)
        ELSE IF hasMs /\ until = None
             THEN Waited("success",
                         Some(MathMin(MathMax(Finite(0), Get(ms)), Finite(maxWaitMs))),
                         None)
        ELSE LET result == waitForSelector(effectiveTimeout, appears)
             IN  Waited(CASE result.found = "found" -> "success"
                          [] result.found = "timeout" -> "error"
                          [] OTHER -> "never",
                        None, Some(result.timeout))

\* the values of ms and timeoutMs supplied: absent, numbers (zero, small,
\* ten times maxWaitMs, negative, too large for a double), strings (of a
\* number, empty, blank, not of a number), and a boolean
Supplied ==
    {Undefined, JsTrue,
     JsNumber(Finite(0)), JsNumber(Finite(2)), JsNumber(Finite(maxWaitMs)),
     JsNumber(Finite(maxWaitMs * 10)), JsNumber(Finite(0 - 5)),
     JsNumber(Infinity),
     JsString(<<"2">>), JsString(<<"4", "0">>), JsString(<<"-", "1">>),
     JsString(<<>>), JsString(<<" ">>), JsString(<<"soon">>),
     JsString(<<"Infinity">>)}

Selectors == {Undefined, JsNumber(Finite(1)), JsString(<<>>),
              JsString(<<" ">>), JsString(<<"#done">>)}

\* the default executor is given a wait action
HandleWait ==
    /\ probe = NoProbe
    /\ \E ms \in Supplied, timeoutMs \in Supplied, until \in Selectors,
          tab \in BOOLEAN, appears \in BOOLEAN :
          LET params == [ms |-> ms, until |-> until, timeoutMs |-> timeoutMs]
          IN  probe' = [call |-> "handleWait", params |-> params, tab |-> tab,
                        appears |-> appears,
                        result |-> handleWait(tab, params, appears)]
    /\ UNCHANGED <<config, hub, host, modelReady, executor, rejected, tasks,
                   queue, activeTaskIds, memory, pc, local, stack, events,
                   updated, caller, calls, apiCalls, replies>>

NextWait == HandleWait

SpecWait == Init /\ [][NextWait]_vars

\* C32: the fixed delay slept by a wait action and the timeout used for a
\* condition wait never exceed maxWaitMs, whatever ms and timeoutMs are
C32_WaitClamped ==
    probe.call = "handleWait" =>
        /\ probe.result.slept # None =>
              LessOrEqual(Get(probe.result.slept), Finite(maxWaitMs))
        /\ probe.result.timeout # None =>
              LessOrEqual(Get(probe.result.timeout), Finite(maxWaitMs))

\* C32, the fixed delay alone: it is between 0 and maxWaitMs
C32_DelayClamped ==
    (probe.call = "handleWait" /\ probe.result.slept # None) =>
        /\ LessOrEqual(Finite(0), Get(probe.result.slept))
        /\ LessOrEqual(Get(probe.result.slept), Finite(maxWaitMs))

\* C32 witness: ms ten times maxWaitMs was slept as maxWaitMs
C32_Witness ==
    /\ probe.call = "handleWait"
    /\ probe.params.ms = JsNumber(Finite(maxWaitMs * 10))
    /\ probe.result.slept = Some(Finite(maxWaitMs))

\* C32 witness of the failure: a condition wait whose timeoutMs is a string
\* that is no number polls with NaN and never settles
C32_NeverTimesOut ==
    /\ probe.call = "handleWait"
    /\ probe.params.timeoutMs = JsString(<<"soon">>)
    /\ probe.result.timeout = Some(NaN)
    /\ probe.result.outcome = "never"

\* ------------------------------------------------------- scheduler claims
\* drainQueue is in the middle of executing: a run it entered has not yet
\* given control back to its loop
DrainRunning == \E i \in DOMAIN stack : stack[i].inDrain

\* no task waits in the queue while a slot is free
WorkConserved ==
    ~(queue # <<>> /\ Cardinality(activeTaskIds) < config.maxParallelTasks)

\* a step pushed a task on the queue, or took a task out of activeTaskIds
Enqueued(t) == pc[t] = "creating" /\ pc'[t] # "creating"

Completed(t) == t \in activeTaskIds /\ t \notin activeTaskIds'

\* the drain made by a step: the tasks at the head of the queue were taken
\* in order, as many as there were free slots
Drained(before, free) ==
    LET taken == IF Len(before) < free THEN Len(before)
                 ELSE IF free < 0 THEN 0 ELSE free
    IN  /\ queue' = SubSeq(before, taken + 1, Len(before))
        /\ \A i \in 1..taken : before[i] \in activeTaskIds'

\* the drain made by a step takes the head of the queue when a slot is free
StartsHead(before, free) ==
    (free > 0 /\ before # <<>>) =>
        Head(before) \in activeTaskIds' /\ DrainRunning'

\* C33: the scheduler is work-conserving: whenever drainQueue is not in the
\* middle of executing, the queue is not non-empty while fewer than
\* maxParallelTasks ids are in activeTaskIds; a drain is made on every
\* enqueue and on every completion of a task, fulfilled or rejected.
C33_WorkConserving ==
    /\ [](~DrainRunning => WorkConserved)
    /\ [][\A t \in TaskIds :
            /\ Enqueued(t) =>
                  StartsHead(Append(queue, t),
                             config.maxParallelTasks - Cardinality(activeTaskIds))
            /\ Completed(t) =>
                  StartsHead(queue,
                             config.maxParallelTasks
                                 - Cardinality(activeTaskIds \ {t}))
            /\ (Enqueued(t) /\ ~DrainRunning') =>
                  Drained(Append(queue, t),
                          config.maxParallelTasks - Cardinality(activeTaskIds))
            /\ (Completed(t) /\ ~DrainRunning') =>
                  Drained(queue,
                          config.maxParallelTasks
                              - Cardinality(activeTaskIds \ {t}))]_vars

\* C33 witness: a task waited in the queue while the slots were taken, and
\* was started by the drain made at the completion of another
C33_Witness ==
    \E t \in DOMAIN tasks, u \in DOMAIN tasks :
        /\ t # u
        /\ pc[u] = "settled"
        /\ t \in activeTaskIds
        /\ Emitted(u, "task-completed") \/ Emitted(u, "task-failed")
        /\ tasks[t].createdAt > tasks[u].createdAt
        /\ config.maxParallelTasks = 1
        /\ ~DrainRunning

\* C33 witness: the same after a run that was rejected
C33_WitnessRejected ==
    \E t \in DOMAIN tasks, u \in DOMAIN tasks :
        /\ t # u
        /\ caller[u] = "rejected"
        /\ pc[u] = "settled"
        /\ t \in activeTaskIds
        /\ config.maxParallelTasks = 1
        /\ ~DrainRunning

\* ------------------------------------------------------------ step claims
\* the steps of task t whose status is running
RunningSteps(t) ==
    {i \in DOMAIN tasks[t].steps : tasks[t].steps[i].status = "running"}

\* C34: within one task the loop is sequential: a task has at most one
\* step whose status is running, that step is the last of task.steps, and
\* a step is added only when the step before it has been finalised (it is
\* succeeded or failed and has its observation), the steps before staying
\* where they are.
C34_Sequential ==
    /\ [](\A t \in DOMAIN tasks :
            /\ Cardinality(RunningSteps(t)) <= 1
            /\ RunningSteps(t) \subseteq {Len(tasks[t].steps)})
    /\ [][\A t \in DOMAIN tasks :
            tasks'[t].steps # tasks[t].steps /\ Len(tasks'[t].steps) # Len(tasks[t].steps)
            => LET old == tasks[t].steps
                   new == tasks'[t].steps
               IN  /\ Len(new) = Len(old) + 1
                   /\ SubSeq(new, 1, Len(old)) = old
                   /\ new[Len(new)].status = "running"
                   /\ old # <<>> =>
                        /\ old[Len(old)].status \in {"succeeded", "failed"}
                        /\ old[Len(old)].observation # None]_vars

\* C34 witness: a second step is running after the first was finalised
C34_Witness ==
    \E t \in DOMAIN tasks :
        /\ Len(tasks[t].steps) = 2
        /\ tasks[t].steps[1].status \in {"succeeded", "failed"}
        /\ tasks[t].steps[2].status = "running"
        /\ pc[t] = "awaitExec"

\* ------------------------------------------------------ createTask claims
\* the orchestration of task t has ended: run returned or threw, and the
\* callback of drainQueue for runTask(t) ran
OrchestrationEnded(t) == pc[t] = "settled"

\* C35: the createTask call for a task settles only after the orchestration
\* of the task has ended: while the task waits in the queue or runs the call
\* has not returned, and when it resolves the task returned is terminal.
C35_SettlesAfterRun ==
    /\ [](\A t \in DOMAIN tasks :
            /\ (InQueue(t) \/ t \in activeTaskIds
                  \/ tasks[t].status = "running") => caller[t] = "pending"
            /\ caller[t] = "resolved" =>
                  OrchestrationEnded(t) /\ Terminal(t)
            /\ (caller[t] = "rejected" /\ Emitted(t, "task-started")) =>
                  OrchestrationEnded(t) /\ Terminal(t))
    /\ [][\A t \in DOMAIN tasks :
            (caller[t] = "pending" /\ caller'[t] # "pending" /\ pc[t] # "creating")
            => /\ pc[t] \in {"returned", "rethrown"}
               /\ Terminal(t)
               /\ tasks'[t] = tasks[t]]_vars

\* C35 witness: createTask resolved for a task that had waited in the queue
\* behind another
C35_Witness ==
    \E t \in DOMAIN tasks :
        /\ caller[t] = "resolved"
        /\ t > 1
        /\ config.maxParallelTasks = 1
        /\ tasks[t].status = "succeeded"

\* C36: a task whose status is succeeded or failed has no step whose status
\* is running or pending: every step of a terminal task is succeeded or
\* failed.
C36_TerminalStepsDone ==
    \A t \in DOMAIN tasks :
        Terminal(t) =>
            \A i \in DOMAIN tasks[t].steps : StepDone(tasks[t].steps[i])

\* C36 for the tasks that did not end in the catch block of run or of
\* runTask: every step of theirs is succeeded or failed
C36_DoneUnlessCaught ==
    \A t \in DOMAIN tasks :
        (Terminal(t) /\ ~Emitted(t, "task-error")
            /\ tasks[t].lastError # Some(ListenerMessage)) =>
            \A i \in DOMAIN tasks[t].steps : StepDone(tasks[t].steps[i])

\* C36 witness of the failure: the executor threw, the task is failed and
\* its createTask call settled, and its last step is still running
C36_RunningStepOfFailedTask ==
    \E t \in DOMAIN tasks :
        /\ tasks[t].status = "failed"
        /\ pc[t] = "settled"
        /\ tasks[t].steps # <<>>
        /\ tasks[t].steps[Len(tasks[t].steps)].status = "running"
        /\ tasks[t].lastError # None

\* how many times task t is in the queue
TimesInQueue(t) == Cardinality({i \in DOMAIN queue : queue[i] = t})

\* the bookkeeping of the scheduler agrees with the status of task t
Consistent(t) ==
    /\ tasks[t].status = "pending" =>
          TimesInQueue(t) = 1 /\ t \notin activeTaskIds
    /\ tasks[t].status = "running" =>
          t \in activeTaskIds /\ TimesInQueue(t) = 0

\* C37: the bookkeeping of the scheduler is consistent with the status of
\* the tasks: a pending task is exactly once in the queue and not in
\* activeTaskIds, a running task is in activeTaskIds and not in the queue,
\* the queue holds only pending tasks, and every id of activeTaskIds is the
\* id of a task of the store.
C37_Bookkeeping ==
    /\ \A t \in DOMAIN tasks : Consistent(t)
    /\ \A i \in DOMAIN queue :
          queue[i] \in DOMAIN tasks /\ tasks[queue[i]].status = "pending"
    /\ activeTaskIds \subseteq DOMAIN tasks

\* C37 for the tasks that createTask has pushed on the queue: from the push
\* on the bookkeeping is consistent with the status
C37_OnceEnqueued ==
    /\ \A t \in DOMAIN tasks : pc[t] \notin {"creating", "dropped"} => Consistent(t)
    /\ \A i \in DOMAIN queue :
          queue[i] \in DOMAIN tasks /\ tasks[queue[i]].status = "pending"
    /\ activeTaskIds \subseteq DOMAIN tasks

\* C37 witness of the failure: a listener of task-created threw; createTask
\* was rejected, and the task stays in the store with status pending
\* without ever being in the queue
C37_PendingNeverQueued ==
    \E t \in DOMAIN tasks :
        /\ Idle
        /\ pc[t] = "dropped"
        /\ caller[t] = "rejected"
        /\ tasks[t].status = "pending"
        /\ ~InQueue(t)
        /\ t \notin activeTaskIds

\* C37 witness of the part that holds: one task runs while another waits
C37_Witness ==
    \E t \in DOMAIN tasks, u \in DOMAIN tasks :
        /\ Idle
        /\ tasks[t].status = "running" /\ t \in activeTaskIds
        /\ tasks[u].status = "pending" /\ InQueue(u)

\* ----------------------------------------------------- finish and action
\* the event at position i of t's log is the planning-finished of a plan
\* that carries both an action and a finish directive
BothAt(t, i) ==
    /\ events[t][i].type = "planning-finished"
    /\ events[t][i].payload.action # None
    /\ events[t][i].payload.finish # None

\* C38: when a plan carries both a finish directive and an action, the
\* finish directive wins: no step is created for the plan and the executor
\* is not called for it, the action is not validated (no task-error
\* follows, whatever the action), the event that follows is the terminal
\* event given by finish.status with the summary of the directive, and the
\* task then has the status and the summary of the directive.
C38_FinishWins ==
    \A t \in DOMAIN tasks :
        \A i \in DOMAIN events[t] :
            BothAt(t, i) =>
                LET finish == Get(events[t][i].payload.finish)
                    last == IF finish.status = "success"
                            THEN "task-completed" ELSE "task-failed"
                IN  /\ Len(events[t]) <= i + 1
                    /\ Len(tasks[t].steps) = CountEvents(t, "planning-finished") - 1
                    /\ CountEvents(t, "step-created") = Len(tasks[t].steps)
                    /\ calls[t].executor = Len(tasks[t].steps)
                    /\ ~Emitted(t, "task-error")
                    /\ \A k \in DOMAIN tasks[t].steps :
                          StepDone(tasks[t].steps[k])
                    /\ Len(events[t]) = i + 1 =>
                          /\ events[t][i + 1].type = last
                          /\ events[t][i + 1].payload = finish.summary
                          /\ tasks[t].summary = Some(finish.summary)
                          /\ tasks[t].status =
                                (IF finish.status = "success"
                                 THEN "succeeded" ELSE "failed")
                    /\ Len(events[t]) = i => tasks[t].status = "running"

\* C38 witness: a plan with an action that validateAction rejects and a
\* finish directive of success ended its task succeeded
C38_Witness ==
    \E t \in DOMAIN tasks :
        \E i \in DOMAIN events[t] :
            /\ BothAt(t, i)
            /\ events[t][i].payload.action = Some(ClickNothing)
            /\ pc[t] = "settled"
            /\ tasks[t].status = "succeeded"

\* C38 witness: a plan with an action that validateAction accepts and a
\* finish directive of failed ended its task failed, with no step
C38_WitnessFailed ==
    \E t \in DOMAIN tasks :
        \E i \in DOMAIN events[t] :
            /\ BothAt(t, i)
            /\ events[t][i].payload.action = Some(ScrollDown)
            /\ pc[t] = "settled"
            /\ tasks[t].status = "failed"
            /\ tasks[t].steps = <<>>

\* ------------------------------------------------------- outcome fields
\* C39: the outcome fields of a task are consistent with its status: a
\* succeeded task has a summary and no lastError, a failed task has
\* lastError, and a pending or running task has neither summary nor
\* lastError.
C39_OutcomeFields ==
    \A t \in DOMAIN tasks :
        /\ tasks[t].status = "succeeded" =>
              tasks[t].summary # None /\ tasks[t].lastError = None
        /\ tasks[t].status = "failed" => tasks[t].lastError # None
        /\ tasks[t].status \in {"pending", "running"} =>
              tasks[t].summary = None /\ tasks[t].lastError = None

\* C39 for the tasks that are succeeded, failed or pending, and for the
\* running ones outside the catch block of run
C39_OutsideCatch ==
    \A t \in DOMAIN tasks :
        /\ tasks[t].status = "succeeded" =>
              tasks[t].summary # None /\ tasks[t].lastError = None
        /\ tasks[t].status = "failed" => tasks[t].lastError # None
        /\ (tasks[t].status \in {"pending", "running"} /\ pc[t] # "task-error") =>
              tasks[t].summary = None /\ tasks[t].lastError = None

\* C39 witness of the failure: the listeners of task-error run for a task
\* whose status is running and whose lastError is set
C39_RunningWithLastError ==
    \E t \in DOMAIN tasks :
        /\ AtEmit(t, "task-error")
        /\ tasks[t].status = "running"
        /\ tasks[t].lastError # None
        /\ t \in activeTaskIds

\* ------------------------------------------------------ memory isolation
\* the orchestration of task u makes the step: its code is running, or the
\* planner or the executor it awaits settles
Acting(u) ==
    \/ stack # <<>> /\ Head(stack).task = u
    \/ Idle /\ pc[u] \in {"awaitPlan", "awaitExec"} /\ pc'[u] # pc[u]

\* the entries remembered for task t before the event at position i of its
\* log: a thought at each plan, the action at each executor call and the
\* observation at each finalised step
RememberedBefore(t, i) ==
    Cardinality({j \in 1..(i - 1) :
        events[t][j].type \in {"planning-finished", "step-executing",
                               "step-updated"}})

\* C40: memory is isolated per task under concurrent orchestrations: the
\* list of a task is written only by steps of the orchestration of that
\* task, which append to it, so every entry getRecent(taskId) returns was
\* remembered for that taskId; and the memory given to the planner for a
\* task holds the entries of that task only: their number is the number
\* remembered for the task, at most 16.
C40_MemoryIsolated ==
    /\ [][\A u \in TaskIds :
            memory'[u] # memory[u] =>
                /\ Acting(u)
                /\ Len(memory'[u]) > Len(memory[u])
                /\ SubSeq(memory'[u], 1, Len(memory[u])) = memory[u]]_vars
    /\ [](\A t \in DOMAIN tasks :
            \A i \in DOMAIN events[t] :
                events[t][i].type = "planning-started" =>
                    events[t][i].payload = Min(16, RememberedBefore(t, i)))
    /\ [](\A t \in TaskIds : t \notin DOMAIN tasks => memory[t] = <<>>)

\* C40 witness: two orchestrations run in parallel; one has remembered
\* entries, and the planner of the other, called afterwards, was given none
C40_Witness ==
    \E t \in DOMAIN tasks, u \in DOMAIN tasks :
        /\ t # u
        /\ {t, u} \subseteq activeTaskIds
        /\ pc[t] = "awaitExec" /\ Len(memory[t]) = 2
        /\ pc[u] = "awaitPlan" /\ memory[u] = <<>>
        /\ LastEvent(u).type = "planning-started"
        /\ LastEvent(u).payload = 0
        /\ tasks[u].createdAt > tasks[t].createdAt

\* C40 witness: the planner of a task was given the three entries of the
\* first iteration of that task
C40_WitnessOwn ==
    \E t \in DOMAIN tasks :
        /\ pc[t] = "awaitPlan"
        /\ LastEvent(t).type = "planning-started"
        /\ LastEvent(t).payload = 3
        /\ getRecent(memory, t, 16) = memory[t]
        /\ Len(memory[t]) = 3

====
